---- MODULE Spec2Model ----
(***************************************************************************)
(* Model of the ABS census transformation pipelines:                       *)
(*   processing/c21_g01_sa2.py  (Pipeline A, population characteristics)   *)
(*   processing/c21_g19_sa2.py  (Pipeline B, long-term health conditions)  *)
(*                                                                         *)
(* Cells are tagged records: a string is a sequence of one-character       *)
(* strings, so that partition(":") and strip() are computed, not assumed.  *)
(* A DataFrame is [columns, rows]: the ordered column names and the rows,  *)
(* each row a function from column name to cell.                           *)
(***************************************************************************)
EXTENDS Integers, Sequences, FiniteSets, TLC

VARIABLES
    processed_dir,   \* does settings.processed_data_dir exist
    files,           \* artifact name -> [exists, df] under processed_data_dir
    before,          \* [dir, files]: storage as it was when the last call began
    last,            \* what the last call did (operation, flags, outcome, outputs)
    prev,            \* what the call before the last did
    nRuns,           \* number of process_* invocations so far
    input,           \* the DataFrame handed to a direct transform_* call, or
                     \* the extract the last process_* call loaded
    cell_value,      \* the cell handed to a direct split_code_and_label call
    split_result,    \* what that call returned: [called, code, label]
    merges           \* caller -> the _merge_and_write_lookup call it is in:
                     \* [pc, new_df, seen, late, turn]

vars == <<processed_dir, files, before, last, prev, nRuns, input, cell_value, split_result,
          merges>>

-----------------------------------------------------------------------------
(* Bounds of the model.                                                    *)

MaxRuns == 2

MaxRows == 2

\* The longest text handed to a direct split_code_and_label call.
MaxLen == 4

-----------------------------------------------------------------------------
(* Cell values.                                                            *)

NA == [t |-> "na", s |-> <<>>, n |-> 0]

Str(s) == [t |-> "str", s |-> s, n |-> 0]

Int64(n) == [t |-> "int", s |-> <<>>, n |-> n]

\* A cell holding a list or array of n >= 2 elements (what a nested parquet
\* column gives).
ListCell(n) == [t |-> "list", s |-> <<>>, n |-> n]

isna(value) == value.t = "na"

\* `if pd.isna(value):` pd.isna of a list-like is an array, one flag for each
\* element, and the truth value of an array with more than one element is
\* ambiguous: bool() raises ValueError.
AmbiguousTruth(value) == value.t = "list" /\ value.n > 1

\* What a call of split_code_and_label leaves when that ValueError leaves it.
SplitRaised == [raised |-> "ValueError"]

\* The characters the model uses, in code-point order (Python compares str by
\* code point).
Alphabet == <<" ", "-", ".", "0", "1", "2", "3", "4", "5", "6", "7", "8", "9",
              ":", "A", "F", "L", "M", "N", "S", "T", "V", "m", "x">>

Ord(c) == CHOOSE i \in 1..Len(Alphabet) : Alphabet[i] = c

Digits == <<"0", "1", "2", "3", "4", "5", "6", "7", "8", "9">>

IsDigit(c) == \E i \in 1..Len(Digits) : Digits[i] = c

DigitVal(c) == (CHOOSE i \in 1..Len(Digits) : Digits[i] = c) - 1

IsSpace(c) == c = " "

RECURSIVE NatToStr(_)
NatToStr(n) ==
    IF n < 10 THEN <<Digits[n + 1]>>
    ELSE NatToStr(n \div 10) \o <<Digits[(n % 10) + 1]>>

\* str(value) of a non-missing cell.
PyStr(value) ==
    IF value.t = "str" THEN value.s
    ELSE IF value.n < 0 THEN <<"-">> \o NatToStr(0 - value.n)
    ELSE NatToStr(value.n)

RECURSIVE LStrip(_)
LStrip(s) ==
    IF s = <<>> THEN <<>>
    ELSE IF IsSpace(Head(s)) THEN LStrip(Tail(s))
    ELSE s

RECURSIVE RStrip(_)
RStrip(s) ==
    IF s = <<>> THEN <<>>
    ELSE IF IsSpace(s[Len(s)]) THEN RStrip(SubSeq(s, 1, Len(s) - 1))
    ELSE s

\* str.strip()
Strip(s) == RStrip(LStrip(s))

\* Index of the first ":" of s, 0 when there is none.
FirstColon(s) ==
    IF \E i \in 1..Len(s) : s[i] = ":"
    THEN CHOOSE i \in 1..Len(s) : s[i] = ":" /\ \A j \in 1..(i - 1) : s[j] # ":"
    ELSE 0

\* s cut at index i (0: no separator) as [code, sep, label]
PartitionAt(s, i) ==
    IF i = 0 THEN [code |-> s, sep |-> FALSE, label |-> <<>>]
    ELSE [code |-> SubSeq(s, 1, i - 1), sep |-> TRUE,
          label |-> SubSeq(s, i + 1, Len(s))]

\* str.partition(":") as [code, sep, label]
Partition(s) == PartitionAt(s, FirstColon(s))

\* `x or None` for a str x
OrNone(s) == IF s = <<>> THEN NA ELSE Str(s)

\* A mutant of split_code_and_label: splits on the last colon.
split_code_and_label_lastcolon(value) ==
    IF AmbiguousTruth(value) THEN SplitRaised
    ELSE IF isna(value) THEN [code |-> NA, label |-> NA]
    ELSE LET text == PyStr(value)
             has  == \E i \in 1..Len(text) : text[i] = ":"
             k    == IF has
                     THEN CHOOSE i \in 1..Len(text) :
                            text[i] = ":" /\ \A j \in (i + 1)..Len(text) : text[j] # ":"
                     ELSE 0
         IN IF ~has THEN [code |-> OrNone(Strip(text)), label |-> NA]
            ELSE [code |-> OrNone(Strip(SubSeq(text, 1, k - 1))),
                  label |-> OrNone(Strip(SubSeq(text, k + 1, Len(text))))]

\* A mutant of split_code_and_label: with a colon the code is returned as cut,
\* not stripped.
split_code_and_label_rawcode(value) ==
    IF AmbiguousTruth(value) THEN SplitRaised
    ELSE IF isna(value) THEN [code |-> NA, label |-> NA]
    ELSE IF ~Partition(PyStr(value)).sep
    THEN [code |-> OrNone(Strip(PyStr(value))), label |-> NA]
    ELSE [code |-> OrNone(Partition(PyStr(value)).code),
          label |-> OrNone(Strip(Partition(PyStr(value)).label))]

\* The two returns after text.partition(":"), p being its result.
CleanParts(p) ==
    IF ~p.sep THEN [code |-> OrNone(Strip(p.code)), label |-> NA]
    ELSE [code |-> OrNone(Strip(p.code)), label |-> OrNone(Strip(p.label))]

split_code_and_label(value) ==
    IF AmbiguousTruth(value) THEN SplitRaised
    ELSE IF isna(value) THEN [code |-> NA, label |-> NA]
    ELSE CleanParts(Partition(PyStr(value)))

-----------------------------------------------------------------------------
(* DataFrame operations.                                                   *)

EmptyDf == [columns |-> <<>>, rows |-> <<>>]

Range(s) == {s[i] : i \in 1..Len(s)}

\* The rows of a frame, each replaced by F of it (a column-wise operation
\* seen row by row).
RECURSIVE MapRows(_, _)
MapRows(F(_), rows) ==
    IF rows = <<>> THEN <<>>
    ELSE <<F(Head(rows))>> \o MapRows(F, Tail(rows))

\* df[cols]: the projection on the listed columns, in the listed order.
Project(df, cols) ==
    [columns |-> cols,
     rows |-> MapRows(LAMBDA r : [c \in Range(cols) |-> r[c]], df.rows)]

\* DataFrame.drop_duplicates(): the first occurrence of every full row is kept.
RECURSIVE DropDupRows(_, _)
DropDupRows(rows, seen) ==
    IF rows = <<>> THEN <<>>
    ELSE IF Head(rows) \in seen THEN DropDupRows(Tail(rows), seen)
    ELSE <<Head(rows)>> \o DropDupRows(Tail(rows), seen \cup {Head(rows)})

\* A mutant of drop_duplicates: of the rows that agree on the first column only
\* the first is kept.
drop_duplicates_bykey(df) ==
    [columns |-> df.columns,
     rows |-> SelectSeq(df.rows, LAMBDA r :
                  r = df.rows[CHOOSE i \in 1..Len(df.rows) :
                          /\ df.rows[i][df.columns[1]] = r[df.columns[1]]
                          /\ \A k \in 1..(i - 1) :
                                df.rows[k][df.columns[1]] # r[df.columns[1]]])]

drop_duplicates(df) == [columns |-> df.columns, rows |-> DropDupRows(df.rows, {})]

\* Python's str ordering: lexicographic by code point, a proper prefix first.
RECURSIVE StrLess(_, _)
StrLess(a, b) ==
    IF b = <<>> THEN FALSE
    ELSE IF a = <<>> THEN TRUE
    ELSE IF Head(a) = Head(b) THEN StrLess(Tail(a), Tail(b))
    ELSE Ord(Head(a)) < Ord(Head(b))

\* Order of two key cells under sort_values: missing values are placed last.
CellLess(x, y) ==
    IF isna(x) THEN FALSE
    ELSE IF isna(y) THEN TRUE
    ELSE StrLess(x.s, y.s)

CellSame(x, y) == (isna(x) /\ isna(y)) \/ (~isna(x) /\ ~isna(y) /\ x.s = y.s)

\* r1 sorts strictly before r2 on the key columns `by` (first column major).
RECURSIVE KeyLess(_, _, _)
KeyLess(r1, r2, by) ==
    IF by = <<>> THEN FALSE
    ELSE IF CellLess(r1[Head(by)], r2[Head(by)]) THEN TRUE
    ELSE IF CellSame(r1[Head(by)], r2[Head(by)]) THEN KeyLess(r1, r2, Tail(by))
    ELSE FALSE

RECURSIVE InsertByKey(_, _, _)
InsertByKey(sorted, r, by) ==
    IF sorted = <<>> THEN <<r>>
    ELSE IF KeyLess(r, Head(sorted), by) THEN <<r>> \o sorted
    ELSE <<Head(sorted)>> \o InsertByKey(Tail(sorted), r, by)

RECURSIVE SortRows(_, _)
SortRows(rows, by) ==
    IF rows = <<>> THEN <<>>
    ELSE InsertByKey(SortRows(SubSeq(rows, 1, Len(rows) - 1), by), rows[Len(rows)], by)

\* numpy's quicksort hands a partition of at most SMALL_QUICKSORT + 1 elements
\* to insertion sort.
SMALL_QUICKSORT == 16

Swap(a, i, j) == [a EXCEPT ![i] = a[j], ![j] = a[i]]

\* if (LT(a[i], a[j])) SWAP(a[i], a[j])
SwapIfLess(a, i, j, by) == IF KeyLess(a[i], a[j], by) THEN Swap(a, i, j) ELSE a

\* The median of the rows at pl, pm and pr is moved to pm, the least to pl.
MedianOfThree(a, pl, pm, pr, by) ==
    SwapIfLess(SwapIfLess(SwapIfLess(a, pm, pl, by), pr, pm, by), pm, pl, by)

\* do ++pi; while (LT(a[pi], vp)), started at index `from`
ScanUp(a, from, pr, vp, by) ==
    CHOOSE n \in from..pr :
        ~KeyLess(a[n], vp, by) /\ \A k \in from..(n - 1) : KeyLess(a[k], vp, by)

\* do --pj; while (LT(vp, a[pj])), started at index `from`
ScanDown(a, pl, from, vp, by) ==
    CHOOSE n \in pl..from :
        ~KeyLess(vp, a[n], by) /\ \A k \in (n + 1)..from : KeyLess(vp, a[k], by)

\* The partition loop of numpy's quicksort around the pivot row vp: pi moves
\* up to a row not before vp, pj down to a row not after vp, the two rows are
\* swapped, until the indices meet.
RECURSIVE Partition_qs(_, _, _, _, _, _, _)
RECURSIVE PartitionStep(_, _, _, _, _, _, _)
PartitionStep(a, pl, pr, i, j, vp, by) ==
    IF i >= j THEN [a |-> a, pi |-> i]
    ELSE Partition_qs(Swap(a, i, j), pl, pr, i, j, vp, by)

Partition_qs(a, pl, pr, pi, pj, vp, by) ==
    PartitionStep(a, pl, pr, ScanUp(a, pi + 1, pr, vp, by),
                  ScanDown(a, pl, pj - 1, vp, by), vp, by)

\* The pivot row goes back from pr - 1 to where the indices met.
PlacePivot(p, pr) == [a |-> Swap(p.a, p.pi, pr - 1), pi |-> p.pi]

\* One partition of the rows pl..pr of a3, whose median of three is at pm: the
\* pivot is parked at pr - 1, the rows between are partitioned around it.
Partitioned(a3, pl, pm, pr, by) ==
    PlacePivot(Partition_qs(Swap(a3, pm, pr - 1), pl, pr, pl, pr - 1, a3[pm], by), pr)

\* numpy's argsort(kind="quicksort") on the rows pl..pr of a: median of three,
\* partition, both parts sorted the same way; a part of at most
\* SMALL_QUICKSORT + 1 rows by insertion sort. (The heapsort fallback needs more
\* than 2 * floor(log2(n)) nested partitions, which no array under 28 rows has.)
RECURSIVE aquicksort(_, _, _, _)
RECURSIVE SortParts(_, _, _, _)
SortParts(p, pl, pr, by) ==
    aquicksort(aquicksort(p.a, pl, p.pi - 1, by), p.pi + 1, pr, by)

aquicksort(a, pl, pr, by) ==
    IF pr - pl > SMALL_QUICKSORT
    THEN SortParts(Partitioned(MedianOfThree(a, pl, pl + ((pr - pl) \div 2), pr, by),
                               pl, pl + ((pr - pl) \div 2), pr, by),
                   pl, pr, by)
    ELSE SubSeq(a, 1, pl - 1) \o SortRows(SubSeq(a, pl, pr), by)
         \o SubSeq(a, pr + 1, Len(a))

\* The rows of argsort order for the rows that have a key.
SortKeyed(keyed, by) == aquicksort(keyed, 1, Len(keyed), by)

\* nargsort of one key column: the rows with a key in argsort order, then the
\* rows with a missing key in their incoming order.
SortRowsByOneKey(rows, by) ==
    SortKeyed(SelectSeq(rows, LAMBDA r : ~isna(r[by[1]])), by)
    \o SelectSeq(rows, LAMBDA r : isna(r[by[1]]))

\* DataFrame.sort_values(by) followed by reset_index(drop=True): ascending,
\* missing keys last. One key column is sorted with the default
\* kind="quicksort", which keeps rows with equal keys in their incoming order
\* only while the column has at most SMALL_QUICKSORT + 1 keys; several key
\* columns are sorted by lexsort_indexer, which is stable.
sort_values(df, by) ==
    [columns |-> df.columns,
     rows |-> IF Len(by) = 1 THEN SortRowsByOneKey(df.rows, by)
              ELSE SortRows(df.rows, by)]

\* pd.concat([a, b], ignore_index=True) of two frames with the same columns.
concat(a, b) == [columns |-> a.columns, rows |-> a.rows \o b.rows]

-----------------------------------------------------------------------------
(* Numeric cast: pd.to_numeric(col, errors="coerce").astype("Int64").      *)

RECURSIVE AllDigits(_)
AllDigits(s) == s = <<>> \/ (IsDigit(Head(s)) /\ AllDigits(Tail(s)))

RECURSIVE AllZeros(_)
AllZeros(s) == s = <<>> \/ (Head(s) = "0" /\ AllZeros(Tail(s)))

RECURSIVE StrToNat(_)
StrToNat(s) ==
    IF s = <<>> THEN 0 ELSE 10 * StrToNat(SubSeq(s, 1, Len(s) - 1)) + DigitVal(s[Len(s)])

\* The unsigned decimal literal s as [k, n]: k = "int" for an integral value n,
\* "frac" for a value with a non-zero fractional part, "nan" when s is no number.
ParseUnsigned(s) ==
    LET dot == IF \E i \in 1..Len(s) : s[i] = "."
               THEN CHOOSE i \in 1..Len(s) : s[i] = "." /\ \A j \in 1..(i - 1) : s[j] # "."
               ELSE 0
        whole == IF dot = 0 THEN s ELSE SubSeq(s, 1, dot - 1)
        frac  == IF dot = 0 THEN <<>> ELSE SubSeq(s, dot + 1, Len(s))
    IN IF whole = <<>> \/ ~AllDigits(whole) \/ ~AllDigits(frac)
       THEN [k |-> "nan", n |-> 0]
       ELSE IF AllZeros(frac) THEN [k |-> "int", n |-> StrToNat(whole)]
       ELSE [k |-> "frac", n |-> StrToNat(whole)]

\* pd.to_numeric of one cell with errors="coerce": integers stay, decimal
\* literals are parsed, anything else (and a missing value) becomes NaN.
to_numeric(value) ==
    IF value.t = "na" THEN [k |-> "nan", n |-> 0]
    ELSE IF value.t = "int" THEN [k |-> "int", n |-> value.n]
    ELSE IF value.s # <<>> /\ Head(value.s) = "-"
         THEN LET u == ParseUnsigned(Tail(value.s)) IN [k |-> u.k, n |-> 0 - u.n]
    ELSE ParseUnsigned(value.s)

\* astype("Int64") refuses a column holding a non-integral float.
CanCastInt64(df, col) ==
    \A i \in 1..Len(df.rows) : to_numeric(df.rows[i][col]).k # "frac"

\* A mutant of CastInt64: a value that fails numeric coercion is kept as 0.
CastInt64_zero(df, col) ==
    [columns |-> df.columns,
     rows |-> MapRows(LAMBDA r : (col :> Int64(to_numeric(r[col]).n)) @@ r, df.rows)]

\* The Int64 cell of a coerced value: an integer, or <NA> for NaN.
Int64Cell(v) == IF v.k = "int" THEN Int64(v.n) ELSE NA

CastInt64(df, col) ==
    [columns |-> df.columns,
     rows |-> MapRows(LAMBDA r : (col :> Int64Cell(to_numeric(r[col]))) @@ r,
                      df.rows)]

-----------------------------------------------------------------------------
(* Column surgery of the transforms.                                       *)

RECURSIVE SeqWithout(_, _)
SeqWithout(s, x) ==
    IF s = <<>> THEN <<>>
    ELSE IF Head(s) = x THEN SeqWithout(Tail(s), x)
    ELSE <<Head(s)>> \o SeqWithout(Tail(s), x)

\* working.drop(columns=[col])
DropColumn(df, col) ==
    [columns |-> SeqWithout(df.columns, col),
     rows |-> MapRows(LAMBDA r : [c \in DOMAIN r \ {col} |-> r[c]], df.rows)]

\* working[[code_col, label_col]] = split of working[src], row by row
\* The row r with the two columns of `split` set to the pair cl.
WithSplit(r, split, cl) ==
    (split.code_col :> cl.code) @@ (split.label_col :> cl.label) @@ r

AddSplit(df, split) ==
    [columns |-> df.columns \o <<split.code_col, split.label_col>>,
     rows |-> MapRows(LAMBDA r : WithSplit(r, split, split_code_and_label(r[split.src])),
                      df.rows)]

RECURSIVE ApplySplits(_, _)
ApplySplits(df, splits) ==
    IF splits = <<>> THEN df
    ELSE ApplySplits(AddSplit(df, Head(splits)), Tail(splits))

\* working.rename(columns={from: to})
Rename(df, from, to) ==
    [columns |-> [i \in 1..Len(df.columns) |->
                    IF df.columns[i] = from THEN to ELSE df.columns[i]],
     rows |-> MapRows(LAMBDA r :
                        (to :> r[from]) @@ [c \in DOMAIN r \ {from} |-> r[c]],
                      df.rows)]

\* A mutant of Lookup: the projected rows are sorted but not de-duplicated.
Lookup_nodedup(working, cols, by) == sort_values(Project(working, cols), by)

\* A mutant of Lookup: rows without a code are left out.
Lookup_dropna(working, cols, by) ==
    [columns |-> cols,
     rows |-> SelectSeq(sort_values(drop_duplicates(Project(working, cols)), by).rows,
                        LAMBDA r : ~isna(r[cols[1]]))]

\* working[cols].drop_duplicates().sort_values(by).reset_index(drop=True)
Lookup(working, cols, by) == sort_values(drop_duplicates(Project(working, cols)), by)

-----------------------------------------------------------------------------
(* The transforms.                                                         *)

\* What a call that raised hands back: nothing.
NoOutputs == [none |-> TRUE]

expected_cols_g01 ==
    {"SEXP: Sex", "PCHAR: Selected person characteristic", "REGION: Region",
     "REGION_TYPE: Region Type", "STATE: State", "TIME_PERIOD: Time Period",
     "OBS_VALUE", "DATAFLOW"}

expected_cols_g19 ==
    {"SEXP: Sex", "LTHP: Type of long-term health condition", "AGEP: Age",
     "REGION: Region", "REGION_TYPE: Region Type", "STATE: State",
     "TIME_PERIOD: Time Period", "OBS_VALUE", "DATAFLOW"}

\* A mutant of MissingColumns: the optional DATAFLOW column is required too.
MissingColumns_dataflow(df, expected_cols) ==
    {c \in expected_cols : c \notin Range(df.columns)}

\* A mutant of MissingColumns: only one absent column is reported.
MissingColumns_first(df, expected_cols) ==
    LET m == {c \in expected_cols : c \notin Range(df.columns) /\ c # "DATAFLOW"}
    IN IF m = {} THEN {} ELSE {CHOOSE c \in m : TRUE}

\* A mutant of MissingColumns: the observation column is not checked.
MissingColumns_noobs(df, expected_cols) ==
    {c \in expected_cols :
        c \notin Range(df.columns) /\ c # "DATAFLOW" /\ c # "OBS_VALUE"}

\* missing = [c for c in expected_cols if c not in df.columns and c != "DATAFLOW"]
MissingColumns(df, expected_cols) ==
    {c \in expected_cols : c \notin Range(df.columns) /\ c # "DATAFLOW"}

\* A mutant of splits_g01: the state code is split from the region-type column
\* and the region-type code from the state column.
splits_g01_swapped ==
    << [src |-> "SEXP: Sex", code_col |-> "sex", label_col |-> "sex_label"],
       [src |-> "PCHAR: Selected person characteristic",
        code_col |-> "age_group", label_col |-> "age_group_label"],
       [src |-> "REGION: Region", code_col |-> "geog_id", label_col |-> "geog_name"],
       [src |-> "STATE: State",
        code_col |-> "geog_type", label_col |-> "geog_type_label"],
       [src |-> "REGION_TYPE: Region Type",
        code_col |-> "state", label_col |-> "state_label"] >>

splits_g01 ==
    << [src |-> "SEXP: Sex", code_col |-> "sex", label_col |-> "sex_label"],
       [src |-> "PCHAR: Selected person characteristic",
        code_col |-> "age_group", label_col |-> "age_group_label"],
       [src |-> "REGION: Region", code_col |-> "geog_id", label_col |-> "geog_name"],
       [src |-> "REGION_TYPE: Region Type",
        code_col |-> "geog_type", label_col |-> "geog_type_label"],
       [src |-> "STATE: State", code_col |-> "state", label_col |-> "state_label"] >>

splits_g19 ==
    << [src |-> "SEXP: Sex", code_col |-> "sex", label_col |-> "sex_label"],
       [src |-> "LTHP: Type of long-term health condition",
        code_col |-> "lthc", label_col |-> "health_condition"],
       [src |-> "AGEP: Age", code_col |-> "age_group", label_col |-> "age_group_label"],
       [src |-> "REGION: Region", code_col |-> "geog_id", label_col |-> "geog_name"],
       [src |-> "REGION_TYPE: Region Type",
        code_col |-> "geog_type", label_col |-> "geog_type_label"],
       [src |-> "STATE: State", code_col |-> "state", label_col |-> "state_label"] >>

fact_cols_g01 == <<"sex", "age_group", "geog_id", "geog_type", "state", "year", "persons">>

fact_cols_g19 ==
    <<"sex", "lthc", "age_group", "geog_id", "geog_type", "state", "year", "persons">>

\* working[src] and working["persons"], working["year"] raise KeyError for a
\* column the frame lacks (rename ignores an absent column).
HasSourceColumns(df, splits) ==
    /\ \A i \in 1..Len(splits) : splits[i].src \in Range(df.columns)
    /\ "TIME_PERIOD: Time Period" \in Range(df.columns)
    /\ "OBS_VALUE" \in Range(df.columns)

\* The frame after the DATAFLOW drop, the splits and the renames (still uncast).
Working(df, splits) ==
    LET dropped == IF "DATAFLOW" \in Range(df.columns)
                   THEN DropColumn(df, "DATAFLOW") ELSE df
    IN Rename(Rename(ApplySplits(dropped, splits),
                     "TIME_PERIOD: Time Period", "year"),
              "OBS_VALUE", "persons")

\* A mutant of FactTable: rows that repeat an earlier row are dropped.
FactTable_dedup(working, fact_cols) == drop_duplicates(Project(working, fact_cols))

\* fact_df = working[fact_cols].copy(), then reset_index(drop=True)
FactTable(working, fact_cols) == Project(working, fact_cols)

LookupFields ==
    {"geo_lookup", "sex_lookup", "age_lookup", "geog_type_lookup", "state_lookup"}

\* The columns of each lookup, and the columns it is sorted by.
lookup_cols ==
    [geo_lookup |-> <<"geog_id", "geog_name", "geog_type", "state">>,
     sex_lookup |-> <<"sex", "sex_label">>,
     age_lookup |-> <<"age_group", "age_group_label">>,
     geog_type_lookup |-> <<"geog_type", "geog_type_label">>,
     state_lookup |-> <<"state", "state_label">>,
     health_condition_lookup |-> <<"lthc", "health_condition">>]

lookup_sort_by ==
    [geo_lookup |-> <<"geog_type", "geog_id">>, sex_lookup |-> <<"sex">>,
     age_lookup |-> <<"age_group">>, geog_type_lookup |-> <<"geog_type">>,
     state_lookup |-> <<"state">>, health_condition_lookup |-> <<"lthc">>]

\* The lookups `fields` built from the cast working frame.
Lookups(working, fields) ==
    [f \in fields |-> Lookup(working, lookup_cols[f], lookup_sort_by[f])]

\* The five lookups both pipelines build.
BaseLookups(working) == Lookups(working, LookupFields)

\* The messages of the exceptions a transform can raise.
MissingExpectedColumns == "Missing expected columns"

ColumnNotFound == "column not found"

ColumnsSameLengthAsKey == "Columns must be same length as key"

CannotSafelyCast == "cannot safely cast non-equivalent float64 to int64"

TruthValueAmbiguous == "The truth value of an array with more than one element is ambiguous"

\* working[src].apply(split_code_and_label) returns only when the call returns
\* for every cell of every source column.
CanSplitCells(df, splits) ==
    \A i \in 1..Len(splits), k \in 1..Len(df.rows) :
        ~AmbiguousTruth(df.rows[k][splits[i].src])

Raised(status, error, missing) ==
    [status |-> status, error |-> error, missing |-> missing, out |-> NoOutputs]

\* working[[code_col, label_col]] = pd.DataFrame(codes_labels.tolist(), ...):
\* for a frame without rows the right-hand side has no columns, and assigning
\* it to two columns raises ValueError.
CanAssignSplit(df) == Len(df.rows) > 0

\* What a transform returns for the cast working frame: the fact table and
\* the lookups `fields`.
Outputs(working, fact_cols, fields) ==
    [status |-> "ok", error |-> "", missing |-> {},
     out |-> ("fact" :> FactTable(working, fact_cols)) @@ Lookups(working, fields)]

\* The casts of persons and year, then the outputs.
CastAndProject(uncast, fact_cols, fields) ==
    IF ~CanCastInt64(uncast, "persons") \/ ~CanCastInt64(uncast, "year")
    THEN Raised("TypeError", CannotSafelyCast, {})
    ELSE Outputs(CastInt64(CastInt64(uncast, "persons"), "year"), fact_cols, fields)

\* The steps after the column validation.
SplitCastProject(df, splits, fact_cols, fields) ==
    IF ~HasSourceColumns(df, splits)
    THEN Raised("KeyError", ColumnNotFound, {})
    ELSE IF ~CanSplitCells(df, splits)
    THEN Raised("ValueError", TruthValueAmbiguous, {})
    ELSE IF ~CanAssignSplit(df)
    THEN Raised("ValueError", ColumnsSameLengthAsKey, {})
    ELSE CastAndProject(Working(df, splits), fact_cols, fields)

\* if missing: raise ValueError(...)
Validated(df, missing, splits, fact_cols, fields) ==
    IF missing # {}
    THEN Raised("ValueError", MissingExpectedColumns, missing)
    ELSE SplitCastProject(df, splits, fact_cols, fields)

transform_c21_g01_sa2(df) ==
    Validated(df, MissingColumns(df, expected_cols_g01), splits_g01, fact_cols_g01,
              LookupFields)

transform_c21_g19_sa2(df) ==
    Validated(df, MissingColumns(df, expected_cols_g19), splits_g19, fact_cols_g19,
              LookupFields \cup {"health_condition_lookup"})

-----------------------------------------------------------------------------
(* Storage: the Parquet artifacts of settings.processed_data_dir.          *)

Artifacts ==
    {"c21_g01_sa2_population", "c21_g01_sa2_geo_lookup", "c21_g01_sa2_sex_lookup",
     "c21_g01_sa2_age_lookup", "c21_g01_sa2_geog_type_lookup",
     "c21_g01_sa2_state_lookup",
     "c21_g19_sa2_health_conditions", "c21_g19_sa2_health_condition_lookup",
     "common_health_condition_lookup",
     "c21_g19_sa2_geo_lookup", "c21_g19_sa2_sex_lookup", "c21_g19_sa2_age_lookup",
     "c21_g19_sa2_geog_type_lookup", "c21_g19_sa2_state_lookup"}

\* The lookup artifacts Pipeline A writes and Pipeline B merges into.
g01_lookup_file ==
    [geo_lookup |-> "c21_g01_sa2_geo_lookup", sex_lookup |-> "c21_g01_sa2_sex_lookup",
     age_lookup |-> "c21_g01_sa2_age_lookup",
     geog_type_lookup |-> "c21_g01_sa2_geog_type_lookup",
     state_lookup |-> "c21_g01_sa2_state_lookup"]

\* The lookup artifacts Pipeline B writes when it does not reuse the base ones.
g19_lookup_file ==
    [geo_lookup |-> "c21_g19_sa2_geo_lookup", sex_lookup |-> "c21_g19_sa2_sex_lookup",
     age_lookup |-> "c21_g19_sa2_age_lookup",
     geog_type_lookup |-> "c21_g19_sa2_geog_type_lookup",
     state_lookup |-> "c21_g19_sa2_state_lookup"]

\* The sort keys process_c21_g19_sa2 passes to _merge_and_write_lookup.
merge_sort_by ==
    [geo_lookup |-> <<"geog_type", "geog_id">>, sex_lookup |-> <<"sex">>,
     age_lookup |-> <<"age_group">>, geog_type_lookup |-> <<"geog_type">>,
     state_lookup |-> <<"state">>, health_condition_lookup |-> <<"lthc">>]

\* The shared file each lookup of Pipeline B is merged into.
merge_target ==
    [geo_lookup |-> "c21_g01_sa2_geo_lookup", sex_lookup |-> "c21_g01_sa2_sex_lookup",
     age_lookup |-> "c21_g01_sa2_age_lookup",
     geog_type_lookup |-> "c21_g01_sa2_geog_type_lookup",
     state_lookup |-> "c21_g01_sa2_state_lookup",
     health_condition_lookup |-> "common_health_condition_lookup"]

AbsentFile == [exists |-> FALSE, df |-> EmptyDf]

\* df.to_parquet(path, index=False): the artifact is replaced as a whole. Column
\* names and order, row order, str cells, missing cells and Int64 cells all
\* survive the Parquet round trip; the index is not stored.
to_parquet(fs, path, df) == [fs EXCEPT ![path] = [exists |-> TRUE, df |-> df]]

read_parquet(fs, path) == fs[path].df

\* settings.processed_data_dir.mkdir(parents=True, exist_ok=True)
ensure_processed_dir(dir) == TRUE

\* A mutant of MergedLookup: the concatenation is not de-duplicated.
MergedLookup_nodedup(fs, new_df, path, sort_by) ==
    IF fs[path].exists
    THEN sort_values(concat(read_parquet(fs, path), new_df), sort_by)
    ELSE sort_values(new_df, sort_by)

\* A mutant of MergedLookup: the existing file is replaced, not unioned.
MergedLookup_replace(fs, new_df, path, sort_by) == sort_values(new_df, sort_by)

\* A mutant of MergedLookup: the merged rows are not sorted.
MergedLookup_nosort(fs, new_df, path, sort_by) ==
    IF fs[path].exists
    THEN drop_duplicates(concat(read_parquet(fs, path), new_df))
    ELSE new_df

\* The table _merge_and_write_lookup computes, writes and returns.
MergedLookup(fs, new_df, path, sort_by) ==
    sort_values(IF fs[path].exists
                THEN drop_duplicates(concat(read_parquet(fs, path), new_df))
                ELSE new_df,
                sort_by)

\* A mutant of merge_and_write_lookup: the new rows replace the file.
merge_and_write_lookup_overwrite(fs, new_df, path, sort_by) ==
    to_parquet(fs, path, sort_values(new_df, sort_by))

\* _merge_and_write_lookup: the storage after the call.
merge_and_write_lookup(fs, new_df, path, sort_by) ==
    to_parquet(fs, path, MergedLookup(fs, new_df, path, sort_by))

\* A mutant of ReadForMerge: the existing file is not seen.
ReadForMerge_absent(fs, path) == AbsentFile

\* The first half of _merge_and_write_lookup: path.exists() and, when the file
\* is there, existing = pd.read_parquet(path).
ReadForMerge(fs, path) == fs[path]

\* The second half: the table built from what was read, which to_parquet then
\* writes.
MergeOnto(seen, new_df, sort_by) ==
    sort_values(IF seen.exists THEN drop_duplicates(concat(seen.df, new_df))
                ELSE new_df,
                sort_by)

-----------------------------------------------------------------------------
(* The process functions: load, transform, persist.                        *)

RawDataNotFound == "Raw data not found"

\* A mutant of WriteOutputs_g01: the lookups are merged into existing files.
WriteOutputs_g01_merge(fs, out) ==
    LET f1 == to_parquet(fs, "c21_g01_sa2_population", out.fact)
        f2 == merge_and_write_lookup(f1, out.geo_lookup, "c21_g01_sa2_geo_lookup",
                                     <<"geog_type", "geog_id">>)
        f3 == merge_and_write_lookup(f2, out.sex_lookup, "c21_g01_sa2_sex_lookup",
                                     <<"sex">>)
        f4 == merge_and_write_lookup(f3, out.age_lookup, "c21_g01_sa2_age_lookup",
                                     <<"age_group">>)
        f5 == merge_and_write_lookup(f4, out.geog_type_lookup,
                                     "c21_g01_sa2_geog_type_lookup", <<"geog_type">>)
    IN merge_and_write_lookup(f5, out.state_lookup, "c21_g01_sa2_state_lookup",
                              <<"state">>)

\* The write_output block of process_c21_g01_sa2: six unconditional writes.
WriteOutputs_g01(fs, out) ==
    LET f1 == to_parquet(fs, "c21_g01_sa2_population", out.fact)
        f2 == to_parquet(f1, "c21_g01_sa2_geo_lookup", out.geo_lookup)
        f3 == to_parquet(f2, "c21_g01_sa2_sex_lookup", out.sex_lookup)
        f4 == to_parquet(f3, "c21_g01_sa2_age_lookup", out.age_lookup)
        f5 == to_parquet(f4, "c21_g01_sa2_geog_type_lookup", out.geog_type_lookup)
    IN to_parquet(f5, "c21_g01_sa2_state_lookup", out.state_lookup)

\* A mutant of process_c21_g01_sa2: the fact artifact is created (empty) before
\* the input is looked at.
process_c21_g01_sa2_writefirst(fs, src, write_output) ==
    LET touched == IF write_output
                   THEN to_parquet(fs, "c21_g01_sa2_population", EmptyDf) ELSE fs
    IN IF ~src.exists
       THEN [status |-> "FileNotFoundError", error |-> RawDataNotFound,
             missing |-> {}, out |-> NoOutputs, ret |-> NoOutputs, files |-> touched]
       ELSE LET t == transform_c21_g01_sa2(src.df) IN
            IF t.status # "ok"
            THEN [status |-> t.status, error |-> t.error, missing |-> t.missing,
                  out |-> NoOutputs, ret |-> NoOutputs, files |-> touched]
            ELSE [status |-> "ok", error |-> "", missing |-> {}, out |-> t.out,
                  ret |-> t.out,
                  files |-> IF write_output THEN WriteOutputs_g01(fs, t.out) ELSE fs]

\* The call's result after the transform ended with t: what it raised or
\* returned, and the storage it leaves.
Persist_g01(fs, t, write_output) ==
    IF t.status # "ok"
    THEN [status |-> t.status, error |-> t.error, missing |-> t.missing,
          out |-> NoOutputs, ret |-> NoOutputs, files |-> fs]
    ELSE [status |-> "ok", error |-> "", missing |-> {}, out |-> t.out,
          ret |-> t.out,
          files |-> IF write_output THEN WriteOutputs_g01(fs, t.out) ELSE fs]

\* `src` is the raw file at input_path: [exists, df].
process_c21_g01_sa2(fs, src, write_output) ==
    IF ~src.exists
    THEN [status |-> "FileNotFoundError", error |-> RawDataNotFound, missing |-> {},
          out |-> NoOutputs, ret |-> NoOutputs, files |-> fs]
    ELSE Persist_g01(fs, transform_c21_g01_sa2(src.df), write_output)

\* The lookups `fields` of out merged, one after the other, each into its
\* shared file.
RECURSIVE MergeLookups(_, _, _)
MergeLookups(fs, out, fields) ==
    IF fields = <<>> THEN fs
    ELSE MergeLookups(merge_and_write_lookup(fs, out[Head(fields)],
                          merge_target[Head(fields)], merge_sort_by[Head(fields)]),
                      out, Tail(fields))

\* The reuse_base_lookups branch: five merges into Pipeline A's lookup files.
MergeBaseLookups(fs, out) ==
    MergeLookups(fs, out, <<"geo_lookup", "sex_lookup", "age_lookup",
                            "geog_type_lookup", "state_lookup">>)

\* A mutant of WriteOwnLookups: the lookups go to Pipeline A's files.
WriteOwnLookups_tobase(fs, out) ==
    LET f1 == to_parquet(fs, "c21_g01_sa2_geo_lookup", out.geo_lookup)
        f2 == to_parquet(f1, "c21_g01_sa2_sex_lookup", out.sex_lookup)
        f3 == to_parquet(f2, "c21_g01_sa2_age_lookup", out.age_lookup)
        f4 == to_parquet(f3, "c21_g01_sa2_geog_type_lookup", out.geog_type_lookup)
    IN to_parquet(f4, "c21_g01_sa2_state_lookup", out.state_lookup)

\* The else branch: five writes to Pipeline B's own lookup files.
WriteOwnLookups(fs, out) ==
    LET f1 == to_parquet(fs, "c21_g19_sa2_geo_lookup", out.geo_lookup)
        f2 == to_parquet(f1, "c21_g19_sa2_sex_lookup", out.sex_lookup)
        f3 == to_parquet(f2, "c21_g19_sa2_age_lookup", out.age_lookup)
        f4 == to_parquet(f3, "c21_g19_sa2_geog_type_lookup", out.geog_type_lookup)
    IN to_parquet(f4, "c21_g19_sa2_state_lookup", out.state_lookup)

\* A mutant of WriteOutputs_g19: the fact rows are appended to the artifact.
WriteOutputs_g19_appendfact(fs, out, reuse_base_lookups, merge_health_lookup) ==
    LET f1 == to_parquet(fs, "c21_g19_sa2_health_conditions",
                  IF fs["c21_g19_sa2_health_conditions"].exists
                  THEN concat(read_parquet(fs, "c21_g19_sa2_health_conditions"),
                              out.fact)
                  ELSE out.fact)
        f2 == to_parquet(f1, "c21_g19_sa2_health_condition_lookup",
                         out.health_condition_lookup)
        f3 == IF merge_health_lookup
              THEN merge_and_write_lookup(f2, out.health_condition_lookup,
                       "common_health_condition_lookup", <<"lthc">>)
              ELSE f2
    IN IF reuse_base_lookups THEN MergeBaseLookups(f3, out)
       ELSE WriteOwnLookups(f3, out)

\* if merge_health_lookup: the merge into the common health-condition lookup.
MergeHealthLookup(fs, out, merge_health_lookup) ==
    IF merge_health_lookup
    THEN MergeLookups(fs, out, <<"health_condition_lookup">>)
    ELSE fs

\* if reuse_base_lookups: ... else: ...
WriteLookups_g19(fs, out, reuse_base_lookups) ==
    IF reuse_base_lookups THEN MergeBaseLookups(fs, out) ELSE WriteOwnLookups(fs, out)

\* The write_output block of process_c21_g19_sa2: the fact table, the
\* health-condition lookup, then the merges or writes the flags select.
WriteOutputs_g19(fs, out, reuse_base_lookups, merge_health_lookup) ==
    WriteLookups_g19(
        MergeHealthLookup(
            to_parquet(to_parquet(fs, "c21_g19_sa2_health_conditions", out.fact),
                       "c21_g19_sa2_health_condition_lookup",
                       out.health_condition_lookup),
            out, merge_health_lookup),
        out, reuse_base_lookups)

\* Is the lookup `field` merged under these flags.
IsMerged(field, reuse_base_lookups, merge_health_lookup) ==
    IF field = "health_condition_lookup" THEN merge_health_lookup
    ELSE field # "fact" /\ reuse_base_lookups

\* The outputs process_c21_g19_sa2 returns: every merged lookup replaces the
\* transform's own (outputs.x = _merge_and_write_lookup(outputs.x, ...)).
Returned_g19(fs, out, reuse_base_lookups, merge_health_lookup) ==
    [f \in DOMAIN out |->
        IF IsMerged(f, reuse_base_lookups, merge_health_lookup)
        THEN MergedLookup(fs, out[f], merge_target[f], merge_sort_by[f])
        ELSE out[f]]

\* The call's result after the transform ended with t.
Persist_g19(fs, t, write_output, reuse_base_lookups, merge_health_lookup) ==
    IF t.status # "ok"
    THEN [status |-> t.status, error |-> t.error, missing |-> t.missing,
          out |-> NoOutputs, ret |-> NoOutputs, files |-> fs]
    ELSE IF write_output
    THEN [status |-> "ok", error |-> "", missing |-> {}, out |-> t.out,
          ret |-> Returned_g19(fs, t.out, reuse_base_lookups, merge_health_lookup),
          files |-> WriteOutputs_g19(fs, t.out, reuse_base_lookups,
                                     merge_health_lookup)]
    ELSE [status |-> "ok", error |-> "", missing |-> {}, out |-> t.out,
          ret |-> t.out, files |-> fs]

process_c21_g19_sa2(fs, src, write_output, reuse_base_lookups, merge_health_lookup) ==
    IF ~src.exists
    THEN [status |-> "FileNotFoundError", error |-> RawDataNotFound, missing |-> {},
          out |-> NoOutputs, ret |-> NoOutputs, files |-> fs]
    ELSE Persist_g19(fs, transform_c21_g19_sa2(src.df), write_output,
                     reuse_base_lookups, merge_health_lookup)

-----------------------------------------------------------------------------
(* A persisting run that storage interrupts: to_parquet or read_parquet     *)
(* raises OSError at one of the storage steps of the write_output block.    *)

\* One storage step: a whole-file write of outputs.<field> to <path>, or a
\* _merge_and_write_lookup of it into <path>.
Step(kind, field, path) == [kind |-> kind, field |-> field, path |-> path]

BaseFields == <<"geo_lookup", "sex_lookup", "age_lookup", "geog_type_lookup",
                "state_lookup">>

\* The six writes of process_c21_g01_sa2, in the order of the code.
StorageSteps_g01 ==
    <<Step("write", "fact", "c21_g01_sa2_population")>>
    \o [i \in 1..Len(BaseFields) |->
          Step("write", BaseFields[i], g01_lookup_file[BaseFields[i]])]

\* The writes and merges of process_c21_g19_sa2 under the two flags, in the
\* order of the code.
StorageSteps_g19(reuse_base_lookups, merge_health_lookup) ==
    <<Step("write", "fact", "c21_g19_sa2_health_conditions"),
      Step("write", "health_condition_lookup", "c21_g19_sa2_health_condition_lookup")>>
    \o (IF merge_health_lookup
        THEN <<Step("merge", "health_condition_lookup",
                    merge_target["health_condition_lookup"])>>
        ELSE <<>>)
    \o [i \in 1..Len(BaseFields) |->
          IF reuse_base_lookups
          THEN Step("merge", BaseFields[i], merge_target[BaseFields[i]])
          ELSE Step("write", BaseFields[i], g19_lookup_file[BaseFields[i]])]

RunStep(fs, out, st) ==
    IF st.kind = "merge"
    THEN merge_and_write_lookup(fs, out[st.field], st.path, merge_sort_by[st.field])
    ELSE to_parquet(fs, st.path, out[st.field])

\* The storage after the steps have run one after the other.
RECURSIVE RunSteps(_, _, _)
RunSteps(fs, out, steps) ==
    IF steps = <<>> THEN fs
    ELSE RunSteps(RunStep(fs, out, Head(steps)), out, Tail(steps))

StorageFailed == "storage read or write failed"

\* The call's result when step number fail_at raises: the steps before it
\* have taken effect, the failing step and the later ones have not, and the
\* exception leaves the function.
Interrupted(fs, out, steps, fail_at) ==
    [status |-> "OSError", error |-> StorageFailed, missing |-> {},
     out |-> NoOutputs, ret |-> NoOutputs,
     files |-> RunSteps(fs, out, SubSeq(steps, 1, fail_at - 1))]

-----------------------------------------------------------------------------
(* Sample raw data, shaped like the frames of tests/test_processing_*.py    *)
(* with the texts shortened.                                               *)

cols_g01 ==
    <<"DATAFLOW", "SEXP: Sex", "PCHAR: Selected person characteristic",
      "REGION: Region", "REGION_TYPE: Region Type", "STATE: State",
      "TIME_PERIOD: Time Period", "OBS_VALUE">>

cols_g19 ==
    <<"DATAFLOW", "SEXP: Sex", "LTHP: Type of long-term health condition",
      "AGEP: Age", "REGION: Region", "REGION_TYPE: Region Type", "STATE: State",
      "TIME_PERIOD: Time Period", "OBS_VALUE">>

RowG01(sex, pchar, region, rtype, state, time, obs) ==
    ("DATAFLOW" :> Str(<<"A">>)) @@ ("SEXP: Sex" :> sex)
    @@ ("PCHAR: Selected person characteristic" :> pchar)
    @@ ("REGION: Region" :> region) @@ ("REGION_TYPE: Region Type" :> rtype)
    @@ ("STATE: State" :> state) @@ ("TIME_PERIOD: Time Period" :> time)
    @@ ("OBS_VALUE" :> obs)

RowG19(sex, lthp, agep, region, rtype, state, time, obs) ==
    ("DATAFLOW" :> Str(<<"A">>)) @@ ("SEXP: Sex" :> sex)
    @@ ("LTHP: Type of long-term health condition" :> lthp) @@ ("AGEP: Age" :> agep)
    @@ ("REGION: Region" :> region) @@ ("REGION_TYPE: Region Type" :> rtype)
    @@ ("STATE: State" :> state) @@ ("TIME_PERIOD: Time Period" :> time)
    @@ ("OBS_VALUE" :> obs)

Y2021 == Str(<<"2", "0", "2", "1">>)

\* "1: M", "6: A: 6", "21: T", "S2: L", "2: V", "2021", 601
a1 == RowG01(Str(<<"1", ":", " ", "M">>), Str(<<"6", ":", " ", "A", ":", " ", "6">>),
             Str(<<"2", "1", ":", " ", "T">>), Str(<<"S", "2", ":", " ", "L">>),
             Str(<<"2", ":", " ", "V">>), Y2021, Int64(601))

\* "2: F", "4: A: 4", "11: S", "S4: L", "1: N", "2021", 11
a2 == RowG01(Str(<<"2", ":", " ", "F">>), Str(<<"4", ":", " ", "A", ":", " ", "4">>),
             Str(<<"1", "1", ":", " ", "S">>), Str(<<"S", "4", ":", " ", "L">>),
             Str(<<"1", ":", " ", "N">>), Y2021, Int64(11))

\* the sex code of a1 with another label, an integer year, a non-numeric count
a3 == RowG01(Str(<<"1", ":", " ", "m">>), Str(<<"6", ":", " ", "A", ":", " ", "6">>),
             Str(<<"2", "1", ":", " ", "T">>), Str(<<"S", "2", ":", " ", "L">>),
             Str(<<"2", ":", " ", "V">>), Int64(2021), Str(<<"x">>))

\* missing sex, empty code ": A", no colon "21", empty label "2:", missing year, -5
a4 == RowG01(NA, Str(<<":", " ", "A">>), Str(<<"2", "1">>),
             Str(<<"S", "2", ":", " ", "L">>), Str(<<"2", ":">>), NA, Int64(0 - 5))

\* the region id of a1 under another region type, a non-integral count "1.5"
a5 == RowG01(Str(<<"1", ":", " ", "M">>), Str(<<"6", ":", " ", "A", ":", " ", "6">>),
             Str(<<"2", "1", ":", " ", "T">>), Str(<<"S", "4", ":", " ", "L">>),
             Str(<<"2", ":", " ", "V">>), Y2021, Str(<<"1", ".", "5">>))

\* a2 with padded sex text " 2 : F " and the count as the string "7"
a6 == RowG01(Str(<<" ", "2", " ", ":", " ", "F", " ">>),
             Str(<<"4", ":", " ", "A", ":", " ", "4">>),
             Str(<<"1", "1", ":", " ", "S">>), Str(<<"S", "4", ":", " ", "L">>),
             Str(<<"1", ":", " ", "N">>), Y2021, Str(<<"7">>))

\* "1: M", "81: L", "6: A: 6", "21: T", "S2: L", "2: V", "2021", 123
b1 == RowG19(Str(<<"1", ":", " ", "M">>), Str(<<"8", "1", ":", " ", "L">>),
             Str(<<"6", ":", " ", "A", ":", " ", "6">>),
             Str(<<"2", "1", ":", " ", "T">>), Str(<<"S", "2", ":", " ", "L">>),
             Str(<<"2", ":", " ", "V">>), Y2021, Int64(123))

\* "2: F", "10: A", "4: A: 4", "11: S", "S4: L", "1: N", "2021", 456
b2 == RowG19(Str(<<"2", ":", " ", "F">>), Str(<<"1", "0", ":", " ", "A">>),
             Str(<<"4", ":", " ", "A", ":", " ", "4">>),
             Str(<<"1", "1", ":", " ", "S">>), Str(<<"S", "4", ":", " ", "L">>),
             Str(<<"1", ":", " ", "N">>), Y2021, Int64(456))

\* values Pipeline A's samples lack ("3: N", "2: A: 2", "3: T"), the condition
\* code of b2 with another label, a non-numeric count
b3 == RowG19(Str(<<"3", ":", " ", "N">>), Str(<<"1", "0", ":", " ", "L">>),
             Str(<<"2", ":", " ", "A", ":", " ", "2">>),
             Str(<<"3", ":", " ", "T">>), Str(<<"S", "4", ":", " ", "L">>),
             Str(<<"1", ":", " ", "N">>), Int64(2021), Str(<<"x">>))

\* missing sex, condition without label, empty age code, missing year, -5
b4 == RowG19(NA, Str(<<"8", "1">>), Str(<<":", " ", "A">>), Str(<<"2", "1">>),
             Str(<<"S", "2", ":", " ", "L">>), Str(<<"2", ":">>), NA, Int64(0 - 5))

\* the sex code of b1 with another label, a non-integral count "1.5"
b5 == RowG19(Str(<<"1", ":", " ", "m">>), Str(<<"8", "1", ":", " ", "L">>),
             Str(<<"6", ":", " ", "A", ":", " ", "6">>),
             Str(<<"2", "1", ":", " ", "T">>), Str(<<"S", "4", ":", " ", "L">>),
             Str(<<"2", ":", " ", "V">>), Y2021, Str(<<"1", ".", "5">>))

\* b2 with padded condition text " 10 : A " and the count as the string "7"
b6 == RowG19(Str(<<"2", ":", " ", "F">>), Str(<<" ", "1", "0", " ", ":", " ", "A", " ">>),
             Str(<<"4", ":", " ", "A", ":", " ", "4">>),
             Str(<<"1", "1", ":", " ", "S">>), Str(<<"S", "4", ":", " ", "L">>),
             Str(<<"1", ":", " ", "N">>), Y2021, Str(<<"7">>))

RowsG01 == {a1, a2, a3, a4, a5, a6}

RowsG19 == {b1, b2, b3, b4, b5, b6}

\* The frame df without the columns outside `keep`.
KeepColumns(df, keep) ==
    [columns |-> SelectSeq(df.columns, LAMBDA c : c \in keep),
     rows |-> MapRows(LAMBDA r : [c \in DOMAIN r \cap keep |-> r[c]], df.rows)]

FrameG01(rows) == [columns |-> cols_g01, rows |-> rows]

FrameG19(rows) == [columns |-> cols_g19, rows |-> rows]

\* One row holding every column either pipeline knows.
WideFrame ==
    [columns |-> <<"DATAFLOW", "SEXP: Sex", "PCHAR: Selected person characteristic",
                   "LTHP: Type of long-term health condition", "AGEP: Age",
                   "REGION: Region", "REGION_TYPE: Region Type", "STATE: State",
                   "TIME_PERIOD: Time Period", "OBS_VALUE">>,
     rows |-> << a1 @@ b1 >>]

\* Eighteen one-character labels.
LabelChars ==
    <<"0", "1", "2", "3", "4", "5", "6", "7", "8", "9",
      "A", "F", "L", "M", "N", "S", "T", "V">>

\* An extract of SMALL_QUICKSORT + 2 rows like a1 that all carry the sex code
\* "1", each with another label: "1: 0", "1: 1", ..., "1: V".
ManyLabelsFrame ==
    FrameG01([i \in 1..(SMALL_QUICKSORT + 2) |->
                [a1 EXCEPT !["SEXP: Sex"] = Str(<<"1", ":", " ", LabelChars[i]>>)]])

\* The same for Pipeline B: rows like b1, sex code "1" under eighteen labels.
ManyLabelsFrameG19 ==
    FrameG19([i \in 1..(SMALL_QUICKSORT + 2) |->
                [b1 EXCEPT !["SEXP: Sex"] = Str(<<"1", ":", " ", LabelChars[i]>>)]])

\* The frames handed to a direct transform call: every frame of at most MaxRows
\* sample rows of either dataset, the wide row under every set of columns, and
\* the extract with many labels of one code.
TransformInputs ==
    {ManyLabelsFrame} \cup
    {FrameG01(rs) : rs \in UNION {[1..n -> RowsG01] : n \in 0..MaxRows}}
    \cup {FrameG19(rs) : rs \in UNION {[1..n -> RowsG19] : n \in 0..MaxRows}}
    \cup {KeepColumns(WideFrame, keep) : keep \in SUBSET Range(WideFrame.columns)}

RawFile(df) == [exists |-> TRUE, df |-> df]

\* What input_path may point at when process_c21_g01_sa2 runs: nothing, a raw
\* extract with every column (one of them with a non-integral count), or an
\* extract that lacks columns.
SourcesG01 ==
    {AbsentFile,
     RawFile(FrameG01(<<a1, a2>>)),
     RawFile(FrameG01(<<a4, a3, a1>>)),
     RawFile(FrameG01(<<a1, a5>>)),
     RawFile(KeepColumns(FrameG01(<<a1>>), Range(cols_g01) \ {"OBS_VALUE"})),
     RawFile(KeepColumns(FrameG01(<<a2>>),
                         Range(cols_g01) \ {"DATAFLOW", "SEXP: Sex", "STATE: State"}))}

SourcesG19 ==
    {AbsentFile,
     RawFile(FrameG19(<<b1, b2>>)),
     RawFile(FrameG19(<<b3, b4, b2>>)),
     RawFile(FrameG19(<<>>)),
     RawFile(KeepColumns(FrameG19(<<b1>>), Range(cols_g19) \ {"AGEP: Age"})),
     RawFile(KeepColumns(FrameG19(<<b2>>),
                         Range(cols_g19) \ {"DATAFLOW", "OBS_VALUE", "REGION: Region"}))}

-----------------------------------------------------------------------------
(* The state machine.                                                      *)

\* split_code_and_label has not been called.
NotSplit == [called |-> FALSE, raised |-> FALSE, code |-> NA, label |-> NA]

\* The callers that may be inside _merge_and_write_lookup at the same time.
Callers == {1, 2}

\* No call of _merge_and_write_lookup is in progress.
NoMerges ==
    [p \in Callers |-> [pc |-> "idle", new_df |-> EmptyDf, seen |-> AbsentFile,
                        late |-> FALSE, turn |-> 0]]

NoCall ==
    [op |-> "none", status |-> "none", error |-> "", missing |-> {},
     write_output |-> FALSE,
     reuse_base_lookups |-> FALSE, merge_health_lookup |-> FALSE,
     out |-> NoOutputs, ret |-> NoOutputs]

Init ==
    /\ processed_dir \in BOOLEAN
    /\ files = [a \in Artifacts |-> AbsentFile]
    /\ before = [dir |-> processed_dir, files |-> files]
    /\ last = NoCall
    /\ prev = NoCall
    /\ nRuns = 0
    /\ input = EmptyDf
    /\ cell_value = NA
    /\ split_result = NotSplit
    /\ merges = NoMerges

ProcessG01 ==
    /\ nRuns < MaxRuns
    /\ \E src \in SourcesG01, write_output \in BOOLEAN :
         \E r \in {process_c21_g01_sa2(files, src, write_output)} :
         /\ processed_dir' = ensure_processed_dir(processed_dir)
         /\ files' = r.files
         /\ input' = src.df
         /\ last' = [op |-> "process_c21_g01_sa2", status |-> r.status,
                     error |-> r.error, missing |-> r.missing, write_output |-> write_output,
                     reuse_base_lookups |-> FALSE, merge_health_lookup |-> FALSE,
                     out |-> r.out, ret |-> r.ret]
    /\ before' = [dir |-> processed_dir, files |-> files]
    /\ prev' = last
    /\ nRuns' = nRuns + 1
    /\ UNCHANGED <<cell_value, split_result, merges>>

\* The keyword arguments of process_c21_g19_sa2: every combination of the two
\* lookup flags when persisting; with write_output false the code reads neither
\* flag, so that case is called with the defaults only.
FlagsG19 ==
    {f \in [write_output : BOOLEAN, reuse_base_lookups : BOOLEAN,
            merge_health_lookup : BOOLEAN] :
        f.write_output \/ (f.reuse_base_lookups /\ f.merge_health_lookup)}

\* One call of process_c21_g19_sa2 on one of the extracts `sources`.
RunG19(sources) ==
    /\ nRuns < MaxRuns
    /\ \E src \in sources, flags \in FlagsG19 :
         \E r \in {process_c21_g19_sa2(files, src, flags.write_output,
                    flags.reuse_base_lookups, flags.merge_health_lookup)} :
         /\ processed_dir' = ensure_processed_dir(processed_dir)
         /\ files' = r.files
         /\ input' = src.df
         /\ last' = [op |-> "process_c21_g19_sa2", status |-> r.status,
                     error |-> r.error, missing |-> r.missing, write_output |-> flags.write_output,
                     reuse_base_lookups |-> flags.reuse_base_lookups,
                     merge_health_lookup |-> flags.merge_health_lookup,
                     out |-> r.out, ret |-> r.ret]
    /\ before' = [dir |-> processed_dir, files |-> files]
    /\ prev' = last
    /\ nRuns' = nRuns + 1
    /\ UNCHANGED <<cell_value, split_result, merges>>

ProcessG19 == RunG19(SourcesG19)

Next == ProcessG01 \/ ProcessG19

Spec == Init /\ [][Next]_vars

\* Runs of Pipeline B on extracts that may have more rows than the quicksort
\* behind sort_values sorts by insertion.
LargeSourcesG19 == {RawFile(ManyLabelsFrameG19), RawFile(FrameG19(<<b1, b2>>))}

ProcessLargeG19 == RunG19(LargeSourcesG19)

NextLarge == ProcessLargeG19

SpecLarge == Init /\ [][NextLarge]_vars

\* Direct calls of the transforms, as the tests make them: no storage involved.
InitTransform ==
    /\ processed_dir = FALSE
    /\ files = [a \in Artifacts |-> AbsentFile]
    /\ before = [dir |-> processed_dir, files |-> files]
    /\ last = NoCall
    /\ prev = NoCall
    /\ nRuns = 0
    /\ input \in TransformInputs
    /\ cell_value = NA
    /\ split_result = NotSplit
    /\ merges = NoMerges

TransformG01 ==
    /\ \E t \in {transform_c21_g01_sa2(input)} :
       last' = [op |-> "transform_c21_g01_sa2", status |-> t.status,
                error |-> t.error, missing |-> t.missing, write_output |-> FALSE,
                reuse_base_lookups |-> FALSE, merge_health_lookup |-> FALSE,
                out |-> t.out, ret |-> t.out]
    /\ prev' = last
    /\ UNCHANGED <<processed_dir, files, before, nRuns, input, cell_value, split_result,
                   merges>>

TransformG19 ==
    /\ \E t \in {transform_c21_g19_sa2(input)} :
       last' = [op |-> "transform_c21_g19_sa2", status |-> t.status,
                error |-> t.error, missing |-> t.missing, write_output |-> FALSE,
                reuse_base_lookups |-> FALSE, merge_health_lookup |-> FALSE,
                out |-> t.out, ret |-> t.out]
    /\ prev' = last
    /\ UNCHANGED <<processed_dir, files, before, nRuns, input, cell_value, split_result,
                   merges>>

NextTransform == TransformG01 \/ TransformG19

SpecTransform == InitTransform /\ [][NextTransform]_vars

\* Direct calls of split_code_and_label, as test_split_code_and_label_parses_values
\* makes them: on a missing value, on an integer, and on every text of at most
\* MaxLen characters over a blank, a colon, a letter and a digit.
SplitAlphabet == {" ", ":", "A", "1"}

SplitInputs ==
    {NA, Int64(0), Int64(7), Int64(0 - 12)}
    \cup {Str(s) : s \in UNION {[1..n -> SplitAlphabet] : n \in 0..MaxLen}}

InitSplit ==
    /\ processed_dir = FALSE
    /\ files = [a \in Artifacts |-> AbsentFile]
    /\ before = [dir |-> processed_dir, files |-> files]
    /\ last = NoCall
    /\ prev = NoCall
    /\ nRuns = 0
    /\ input = EmptyDf
    /\ cell_value \in SplitInputs
    /\ split_result = NotSplit
    /\ merges = NoMerges

SplitValue ==
    /\ ~split_result.called
    /\ \E r \in {split_code_and_label(cell_value)} :
         split_result' = IF r = SplitRaised
                         THEN [called |-> TRUE, raised |-> TRUE, code |-> NA, label |-> NA]
                         ELSE [called |-> TRUE, raised |-> FALSE,
                               code |-> r.code, label |-> r.label]
    /\ UNCHANGED <<processed_dir, files, before, last, prev, nRuns, input, cell_value,
                   merges>>

NextSplit == SplitValue

SpecSplit == InitSplit /\ [][NextSplit]_vars

\* Direct calls of split_code_and_label on any cell a raw extract can hold:
\* the values above and list cells.
AnyCellInputs == SplitInputs \cup {ListCell(2), ListCell(3)}

InitSplitAny ==
    /\ processed_dir = FALSE
    /\ files = [a \in Artifacts |-> AbsentFile]
    /\ before = [dir |-> processed_dir, files |-> files]
    /\ last = NoCall
    /\ prev = NoCall
    /\ nRuns = 0
    /\ input = EmptyDf
    /\ cell_value \in AnyCellInputs
    /\ split_result = NotSplit
    /\ merges = NoMerges

SplitAnyValue == SplitValue

NextSplitAny == SplitAnyValue

SpecSplitAny == InitSplitAny /\ [][NextSplitAny]_vars

\* Runs of both pipelines on a storage that may fail: besides the runs that
\* complete, persisting runs that an OSError interrupts at any storage step.
FaultSourcesG01 == {RawFile(FrameG01(<<a1, a2>>))}

FaultSourcesG19 == {RawFile(FrameG19(<<b3, b4, b2>>))}

InterruptedG01 ==
    /\ nRuns < MaxRuns
    /\ \E src \in FaultSourcesG01, fail_at \in 1..Len(StorageSteps_g01) :
         \E t \in {transform_c21_g01_sa2(src.df)} :
         /\ t.status = "ok"
         /\ \E r \in {Interrupted(files, t.out, StorageSteps_g01, fail_at)} :
              /\ files' = r.files
              /\ last' = [op |-> "process_c21_g01_sa2", status |-> r.status,
                          error |-> r.error, missing |-> r.missing,
                          write_output |-> TRUE,
                          reuse_base_lookups |-> FALSE, merge_health_lookup |-> FALSE,
                          out |-> r.out, ret |-> r.ret]
         /\ input' = src.df
    /\ processed_dir' = ensure_processed_dir(processed_dir)
    /\ before' = [dir |-> processed_dir, files |-> files]
    /\ prev' = last
    /\ nRuns' = nRuns + 1
    /\ UNCHANGED <<cell_value, split_result, merges>>

InterruptedG19 ==
    /\ nRuns < MaxRuns
    /\ \E src \in FaultSourcesG19, reuse_base_lookups \in BOOLEAN,
          merge_health_lookup \in BOOLEAN :
         \E fail_at \in 1..Len(StorageSteps_g19(reuse_base_lookups, merge_health_lookup)) :
         \E t \in {transform_c21_g19_sa2(src.df)} :
         /\ t.status = "ok"
         /\ \E r \in {Interrupted(files, t.out,
                          StorageSteps_g19(reuse_base_lookups, merge_health_lookup),
                          fail_at)} :
              /\ files' = r.files
              /\ last' = [op |-> "process_c21_g19_sa2", status |-> r.status,
                          error |-> r.error, missing |-> r.missing,
                          write_output |-> TRUE,
                          reuse_base_lookups |-> reuse_base_lookups,
                          merge_health_lookup |-> merge_health_lookup,
                          out |-> r.out, ret |-> r.ret]
         /\ input' = src.df
    /\ processed_dir' = ensure_processed_dir(processed_dir)
    /\ before' = [dir |-> processed_dir, files |-> files]
    /\ prev' = last
    /\ nRuns' = nRuns + 1
    /\ UNCHANGED <<cell_value, split_result, merges>>

CompleteG19 == RunG19(FaultSourcesG19)

NextFaulty == CompleteG19 \/ InterruptedG01 \/ InterruptedG19

SpecFaulty == Init /\ [][NextFaulty]_vars

\* Two callers inside _merge_and_write_lookup on the same shared file, with
\* no lock between them: each reads the file, then writes what it built from
\* what it read, and the steps of the two interleave freely.
RacePath == merge_target["health_condition_lookup"]

RaceSortBy == merge_sort_by["health_condition_lookup"]

\* The health-condition lookups Pipeline B builds from four extracts; the
\* code "10" comes with two labels.
RaceLookups ==
    {transform_c21_g19_sa2(FrameG19(rs)).out.health_condition_lookup :
        rs \in {<<b1, b2>>, <<b3, b4>>, <<b3, b2>>, <<b6, b1, b3>>}}

\* The shared file before the two calls: absent, or as an earlier run of
\* Pipeline B left it.
RaceFiles ==
    {AbsentFile,
     RawFile(transform_c21_g19_sa2(FrameG19(<<b2>>)).out.health_condition_lookup),
     RawFile(transform_c21_g19_sa2(FrameG19(<<b4, b3>>)).out.health_condition_lookup)}

InitRace ==
    /\ processed_dir = TRUE
    /\ files \in {[[a \in Artifacts |-> AbsentFile] EXCEPT ![RacePath] = f] : f \in RaceFiles}
    /\ before = [dir |-> processed_dir, files |-> files]
    /\ last = NoCall
    /\ prev = NoCall
    /\ nRuns = 0
    /\ input = EmptyDf
    /\ cell_value = NA
    /\ split_result = NotSplit
    /\ merges \in [Callers -> {[pc |-> "start", new_df |-> l, seen |-> AbsentFile,
                                 late |-> FALSE, turn |-> 0] : l \in RaceLookups}]

\* if path.exists(): existing = pd.read_parquet(path)
ReadExisting ==
    /\ \E p \in Callers :
         /\ merges[p].pc = "start"
         /\ merges' = [merges EXCEPT ![p] =
                          [@ EXCEPT !.pc = "read",
                                    !.seen = ReadForMerge(files, RacePath),
                                    !.late = \E q \in Callers \ {p} :
                                                merges[q].pc = "written"]]
    /\ UNCHANGED <<processed_dir, files, before, last, prev, nRuns, input, cell_value,
                   split_result>>

\* merged = ...; merged.to_parquet(path, index=False)
WriteMerged ==
    /\ \E p \in Callers :
         /\ merges[p].pc = "read"
         /\ files' = to_parquet(files, RacePath,
                                MergeOnto(merges[p].seen, merges[p].new_df, RaceSortBy))
         /\ merges' = [merges EXCEPT ![p] =
                          [@ EXCEPT !.pc = "written",
                                    !.turn = 1 + Cardinality({q \in Callers :
                                                    merges[q].pc = "written"})]]
    /\ UNCHANGED <<processed_dir, before, last, prev, nRuns, input, cell_value,
                   split_result>>

NextRace == ReadExisting \/ WriteMerged

SpecRace == InitRace /\ [][NextRace]_vars

-----------------------------------------------------------------------------
(* Vocabulary of the properties.                                           *)

RowSet(df) == Range(df.rows)

NoDuplicateRows(df) ==
    \A i, j \in 1..Len(df.rows) : i # j => df.rows[i] # df.rows[j]

SortedBy(df, by) ==
    \A i \in 1..(Len(df.rows) - 1) : ~KeyLess(df.rows[i + 1], df.rows[i], by)

IsProcess(c) == c.op \in {"process_c21_g01_sa2", "process_c21_g19_sa2"}

\* A successful persisting run of Pipeline A.
PersistedG01(c) == c.op = "process_c21_g01_sa2" /\ c.status = "ok" /\ c.write_output

\* A successful persisting run of Pipeline B.
PersistedG19(c) == c.op = "process_c21_g19_sa2" /\ c.status = "ok" /\ c.write_output

\* Merge mode: the default flags, both lookups reconciled by merging.
MergeModeG19(c) == PersistedG19(c) /\ c.reuse_base_lookups /\ c.merge_health_lookup

\* The run failed at the load step or at the column validation.
FailedEarly(c) ==
    /\ IsProcess(c)
    /\ \/ c.status = "FileNotFoundError"
       \/ c.status = "ValueError" /\ c.error = MissingExpectedColumns

CommonHealth == "common_health_condition_lookup"

\* The merges the last run made, as [path, new, by]: shared file, the lookup
\* the transform produced for it, sort key.
MergesOf(c) ==
    (IF PersistedG19(c) /\ c.reuse_base_lookups
     THEN {[path |-> g01_lookup_file[f], new |-> c.out[f], by |-> merge_sort_by[f]] :
             f \in LookupFields}
     ELSE {})
    \cup
    (IF PersistedG19(c) /\ c.merge_health_lookup
     THEN {[path |-> CommonHealth, new |-> c.out.health_condition_lookup,
            by |-> <<"lthc">>]}
     ELSE {})

-----------------------------------------------------------------------------
(* Properties of the shared lookup files.                                  *)

\* C1: merge idempotence. After a run has merged lookup L into a shared file
\* (whatever the file held before, also when it was absent), merging the same
\* L into the result again leaves storage exactly as it is: same rows, same
\* order, no duplicate growth.
C1_MergeIdempotent ==
    \A m \in MergesOf(last) :
        merge_and_write_lookup(files, m.new, m.path, m.by) = files

\* A merge into an existing file that both repeated rows of it and added rows.
C1_Witness ==
    \E m \in MergesOf(last) :
        /\ before.files[m.path].exists
        /\ RowSet(m.new) \cap RowSet(before.files[m.path].df) # {}
        /\ RowSet(m.new) \ RowSet(before.files[m.path].df) # {}
        /\ RowSet(before.files[m.path].df) \ RowSet(m.new) # {}

\* C2: Pipeline B in merge mode, then Pipeline A persisting: each of the five
\* c21_g01_sa2_*_lookup files holds every lookup row of B's run and every
\* lookup row of A's run.
C2_UnionAfterG19ThenG01 ==
    (MergeModeG19(prev) /\ PersistedG01(last)) =>
        \A f \in LookupFields :
            /\ RowSet(prev.out[f]) \subseteq RowSet(files[g01_lookup_file[f]].df)
            /\ RowSet(last.out[f]) \subseteq RowSet(files[g01_lookup_file[f]].df)

\* C3: Pipeline A persisting, then Pipeline B in merge mode: each of the five
\* c21_g01_sa2_*_lookup files holds exactly the rows A wrote together with the
\* rows of B's lookup; no row A wrote is gone.
C3_G19ExtendsG01 ==
    (PersistedG01(prev) /\ MergeModeG19(last)) =>
        \A f \in LookupFields :
            /\ before.files[g01_lookup_file[f]].df = prev.out[f]
            /\ RowSet(files[g01_lookup_file[f]].df)
                 = RowSet(prev.out[f]) \cup RowSet(last.out[f])

\* A runs, then B merges rows A did not have into a file A wrote.
C3_Witness ==
    /\ PersistedG01(prev) /\ MergeModeG19(last)
    /\ \E f \in LookupFields :
         /\ RowSet(last.out[f]) \ RowSet(prev.out[f]) # {}
         /\ RowSet(prev.out[f]) \ RowSet(last.out[f]) # {}

\* C4: one merge of new rows N into a shared file with prior rows F leaves
\* exactly the union of the full rows of F and N, no row twice, ascending by
\* the key columns (missing keys last); with no prior file the result is N,
\* every row once, in key order.
C4_MergeIsSortedUnion ==
    \A m \in MergesOf(last) :
        LET F == before.files[m.path]
            R == files[m.path]
        IN /\ R.exists
           /\ R.df.columns = m.new.columns
           /\ SortedBy(R.df, m.by)
           /\ NoDuplicateRows(R.df)
           /\ RowSet(R.df) = (IF F.exists THEN RowSet(F.df) ELSE {}) \cup RowSet(m.new)
           /\ ~F.exists => Len(R.df.rows) = Len(m.new.rows)

\* A merge that put a new row in front of a row the file already held.
C4_Witness ==
    \E m \in MergesOf(last) :
        LET F == before.files[m.path]
            R == files[m.path].df
        IN /\ F.exists
           /\ \E i, j \in 1..Len(R.rows) :
                /\ i < j
                /\ R.rows[i] \notin RowSet(F.df)
                /\ R.rows[j] \in RowSet(F.df)

\* C5: a process call that fails because the input is absent or a required
\* column is missing writes nothing: every artifact is as it was before.
C5_FailureWritesNothing == FailedEarly(last) => files = before.files

\* A persisting call that fails validation with artifacts already in storage.
C5_Witness ==
    /\ FailedEarly(last)
    /\ last.status = "ValueError"
    /\ last.write_output
    /\ PersistedG19(prev)
    /\ \E a \in Artifacts : before.files[a].exists

\* C8: the not-found check and the column validation come before any I/O side
\* effect: after a failed call storage is exactly as before, and the
\* processed-output location has not been created.
C8_FailureBeforeAnyIO ==
    FailedEarly(last) => (files = before.files /\ processed_dir = before.dir)

-----------------------------------------------------------------------------
(* Properties of the transforms, over direct calls on `input`.             *)

Required_g01 == expected_cols_g01 \ {"DATAFLOW"}

Required_g19 == expected_cols_g19 \ {"DATAFLOW"}

\* The required columns of the called transform that `input` lacks.
Absent ==
    IF last.op = "transform_c21_g01_sa2" THEN Required_g01 \ Range(input.columns)
    ELSE IF last.op = "transform_c21_g19_sa2" THEN Required_g19 \ Range(input.columns)
    ELSE {}

IsTransform(c) == c.op \in {"transform_c21_g01_sa2", "transform_c21_g19_sa2"}

\* C6: for each pipeline and each of its required columns (seven for A, eight
\* for B), a frame lacking exactly that one required column makes the
\* transform raise the validation error and return nothing.
C6_OneMissingColumnFails ==
    (IsTransform(last) /\ Cardinality(Absent) = 1) =>
        /\ last.status = "ValueError"
        /\ last.error = MissingExpectedColumns
        /\ last.ret = NoOutputs

\* Pipeline B's transform on a frame that lacks only the observation column.
C6_Witness ==
    /\ last.op = "transform_c21_g19_sa2"
    /\ Absent = {"OBS_VALUE"}
    /\ "DATAFLOW" \in Range(input.columns)
    /\ last.status = "ValueError"

\* C7: the validation error names exactly the required columns the input
\* lacks: all of them, no present column, never the optional DATAFLOW column;
\* and a frame lacking nothing but DATAFLOW does not fail validation.
C7_ErrorNamesExactlyMissing ==
    IsTransform(last) =>
        /\ (last.error = MissingExpectedColumns) <=> (Absent # {})
        /\ last.missing = Absent
        /\ "DATAFLOW" \notin last.missing

\* Three required columns and DATAFLOW absent: all three named, DATAFLOW not.
C7_Witness ==
    /\ last.op = "transform_c21_g01_sa2"
    /\ last.status = "ValueError"
    /\ Cardinality(last.missing) = 3
    /\ "DATAFLOW" \notin Range(input.columns)

\* The input frame reduced to its i-th row.
OnlyRow(i) == [columns |-> input.columns, rows |-> <<input.rows[i]>>]

\* The fact table of the last (successful) transform call maps the input
\* one to one: declared columns in declared order, the input's row count, and
\* row i is what the transform makes of input row i alone.
FactIsOneToOne ==
    /\ last.out.fact.columns
         = (IF last.op = "transform_c21_g01_sa2"
            THEN <<"sex", "age_group", "geog_id", "geog_type", "state", "year",
                   "persons">>
            ELSE <<"sex", "lthc", "age_group", "geog_id", "geog_type", "state",
                   "year", "persons">>)
    /\ Len(last.out.fact.rows) = Len(input.rows)
    /\ \A i \in 1..Len(input.rows) :
         /\ DOMAIN last.out.fact.rows[i] = Range(last.out.fact.columns)
         /\ <<last.out.fact.rows[i]>>
              = (IF last.op = "transform_c21_g01_sa2"
                 THEN transform_c21_g01_sa2(OnlyRow(i)).out.fact.rows
                 ELSE transform_c21_g19_sa2(OnlyRow(i)).out.fact.rows)

\* C9: for every valid input batch (one that has every required column) the
\* transform yields a fact table with exactly the input's row count, row i
\* derived from input row i (order kept, nothing dropped, added or filtered),
\* and exactly the declared fact columns in the declared order.
C9_FactRowsOneToOne ==
    (IsTransform(last) /\ Absent = {}) => (last.status = "ok" /\ FactIsOneToOne)

\* What does hold: whenever a transform returns, its fact table is one to one.
C9_OneToOneWhenReturned ==
    (IsTransform(last) /\ last.status = "ok") => FactIsOneToOne

\* A valid frame that holds the same row twice: both are kept.
C9_WitnessReturned ==
    /\ last.op = "transform_c21_g01_sa2" /\ last.status = "ok"
    /\ Len(input.rows) = 2
    /\ input.rows[1] = input.rows[2]
    /\ Len(last.out.fact.rows) = 2

\* The code and the label the Splitter yields for a cell.
CodeOf(cell) == split_code_and_label(cell).code

LabelOf(cell) == split_code_and_label(cell).label

\* Every row of a code/label lookup is the split of one source cell.
PairsFrom(lookup, code_col, label_col, src) ==
    \A r \in RowSet(lookup) :
        \E i \in 1..Len(input.rows) :
            /\ r[code_col] = CodeOf(input.rows[i][src])
            /\ r[label_col] = LabelOf(input.rows[i][src])

\* Every row of the geography lookup comes from one input row.
GeoFrom(lookup) ==
    \A r \in RowSet(lookup) :
        \E i \in 1..Len(input.rows) :
            /\ r.geog_id = CodeOf(input.rows[i]["REGION: Region"])
            /\ r.geog_name = LabelOf(input.rows[i]["REGION: Region"])
            /\ r.geog_type = CodeOf(input.rows[i]["REGION_TYPE: Region Type"])
            /\ r.state = CodeOf(input.rows[i]["STATE: State"])

\* The dimensions both fact tables share, row i against input row i.
SharedCodes(i) ==
    LET f == last.out.fact.rows[i]
        r == input.rows[i]
    IN /\ f.sex = CodeOf(r["SEXP: Sex"])
       /\ f.geog_id = CodeOf(r["REGION: Region"])
       /\ f.geog_type = CodeOf(r["REGION_TYPE: Region Type"])
       /\ f.state = CodeOf(r["STATE: State"])

SharedLookupsFromCells ==
    /\ GeoFrom(last.out.geo_lookup)
    /\ PairsFrom(last.out.sex_lookup, "sex", "sex_label", "SEXP: Sex")
    /\ PairsFrom(last.out.geog_type_lookup, "geog_type", "geog_type_label",
                 "REGION_TYPE: Region Type")
    /\ PairsFrom(last.out.state_lookup, "state", "state_label", "STATE: State")

\* C10: in every fact row each dimension field is the code the Splitter gives
\* for that row's source cell (sex from SEXP, age_group from PCHAR or AGEP,
\* lthc from LTHP, geog_id from REGION, geog_type from REGION_TYPE, state from
\* STATE), and every lookup row pairs a code with the label split from the
\* same source cell.
C10_CodesAndLabelsFromSourceCells ==
    /\ (last.op = "transform_c21_g01_sa2" /\ last.status = "ok") =>
          /\ \A i \in 1..Len(input.rows) :
               /\ SharedCodes(i)
               /\ last.out.fact.rows[i].age_group
                    = CodeOf(input.rows[i]["PCHAR: Selected person characteristic"])
          /\ SharedLookupsFromCells
          /\ PairsFrom(last.out.age_lookup, "age_group", "age_group_label",
                       "PCHAR: Selected person characteristic")
    /\ (last.op = "transform_c21_g19_sa2" /\ last.status = "ok") =>
          /\ \A i \in 1..Len(input.rows) :
               /\ SharedCodes(i)
               /\ last.out.fact.rows[i].age_group = CodeOf(input.rows[i]["AGEP: Age"])
               /\ last.out.fact.rows[i].lthc
                    = CodeOf(input.rows[i]["LTHP: Type of long-term health condition"])
          /\ SharedLookupsFromCells
          /\ PairsFrom(last.out.age_lookup, "age_group", "age_group_label", "AGEP: Age")
          /\ PairsFrom(last.out.health_condition_lookup, "lthc", "health_condition",
                       "LTHP: Type of long-term health condition")

\* Pipeline A on rows whose cells have a missing value, an empty code, no
\* colon, and two colons.
C10_Witness ==
    /\ last.op = "transform_c21_g01_sa2" /\ last.status = "ok"
    /\ \E i, j \in 1..Len(input.rows) :
         /\ isna(last.out.fact.rows[i].sex)
         /\ isna(last.out.fact.rows[i].age_group)
         /\ last.out.fact.rows[i].geog_id = Str(<<"2", "1">>)
         /\ last.out.fact.rows[j].age_group = Str(<<"6">>)
    /\ \E r \in RowSet(last.out.age_lookup) :
         r.age_group_label = Str(<<"A", ":", " ", "6">>)

-----------------------------------------------------------------------------
(* Properties of the lookup tables a transform returns.                    *)

OkTransform(c) == IsTransform(c) /\ c.status = "ok"

\* The (code, label) pair the Splitter yields for each input row's cell of
\* column src, as rows over the columns code_col and label_col, in input order.
PairSeq(code_col, label_col, src) ==
    [i \in 1..Len(input.rows) |->
        [c \in {code_col, label_col} |->
            IF c = code_col THEN CodeOf(input.rows[i][src])
            ELSE LabelOf(input.rows[i][src])]]

ProjectedPairs(code_col, label_col, src) == Range(PairSeq(code_col, label_col, src))

\* The (geog_id, geog_name, geog_type, state) tuple of each input row.
GeoSeq ==
    [i \in 1..Len(input.rows) |->
        [c \in {"geog_id", "geog_name", "geog_type", "state"} |->
            IF c = "geog_id" THEN CodeOf(input.rows[i]["REGION: Region"])
            ELSE IF c = "geog_name" THEN LabelOf(input.rows[i]["REGION: Region"])
            ELSE IF c = "geog_type"
                 THEN CodeOf(input.rows[i]["REGION_TYPE: Region Type"])
            ELSE CodeOf(input.rows[i]["STATE: State"])]]

ProjectedGeo == Range(GeoSeq)

\* The source column of the age lookup of the called transform.
AgeSource ==
    IF last.op \in {"transform_c21_g01_sa2", "process_c21_g01_sa2"}
    THEN "PCHAR: Selected person characteristic" ELSE "AGEP: Age"

\* The lookup holds exactly the rows of `expected`, each once.
IsDedupProjection(lookup, expected) ==
    /\ RowSet(lookup) = expected
    /\ NoDuplicateRows(lookup)
    /\ Len(lookup.rows) = Cardinality(expected)

\* C11: every lookup table a transform returns is a de-duplicated projection
\* of the split source columns: its rows are exactly the distinct column
\* tuples occurring in the input rows (none missing, none invented), and no
\* two of its rows are identical.
C11_LookupsAreDedupProjections ==
    OkTransform(last) =>
        /\ IsDedupProjection(last.out.geo_lookup, ProjectedGeo)
        /\ IsDedupProjection(last.out.sex_lookup,
                             ProjectedPairs("sex", "sex_label", "SEXP: Sex"))
        /\ IsDedupProjection(last.out.age_lookup,
                             ProjectedPairs("age_group", "age_group_label", AgeSource))
        /\ IsDedupProjection(last.out.geog_type_lookup,
                             ProjectedPairs("geog_type", "geog_type_label",
                                            "REGION_TYPE: Region Type"))
        /\ IsDedupProjection(last.out.state_lookup,
                             ProjectedPairs("state", "state_label", "STATE: State"))
        /\ last.op = "transform_c21_g19_sa2" =>
             IsDedupProjection(last.out.health_condition_lookup,
                               ProjectedPairs("lthc", "health_condition",
                                   "LTHP: Type of long-term health condition"))

\* Two input rows that agree on one source column and differ on another: the
\* first lookup has one row, the second two.
C11_Witness ==
    /\ OkTransform(last)
    /\ Len(input.rows) = 2
    /\ Len(last.out.age_lookup.rows) = 1
    /\ Len(last.out.sex_lookup.rows) = 2

\* Where a lookup row first occurs in the sequence of projected input rows.
FirstOccurrence(row, projected) ==
    CHOOSE i \in 1..Len(projected) :
        projected[i] = row /\ \A k \in 1..(i - 1) : projected[k] # row

\* Ascending by the key columns, and rows with equal keys in the order of
\* their first occurrence in the input.
SortedStable(lookup, by, projected) ==
    /\ SortedBy(lookup, by)
    /\ \A p, q \in 1..Len(lookup.rows) :
         (p < q /\ ~KeyLess(lookup.rows[p], lookup.rows[q], by)
                /\ ~KeyLess(lookup.rows[q], lookup.rows[p], by))
         => FirstOccurrence(lookup.rows[p], projected)
              < FirstOccurrence(lookup.rows[q], projected)

\* C12: every lookup table a transform returns is ordered ascending by its
\* declared key (geography by geog_type then geog_id, the others by their code
\* column), and rows with equal keys keep the relative order of their first
\* occurrence in the input.
C12_LookupsSortedStable ==
    OkTransform(last) =>
        /\ SortedStable(last.out.geo_lookup, <<"geog_type", "geog_id">>, GeoSeq)
        /\ SortedStable(last.out.sex_lookup, <<"sex">>,
                        PairSeq("sex", "sex_label", "SEXP: Sex"))
        /\ SortedStable(last.out.age_lookup, <<"age_group">>,
                        PairSeq("age_group", "age_group_label", AgeSource))
        /\ SortedStable(last.out.geog_type_lookup, <<"geog_type">>,
                        PairSeq("geog_type", "geog_type_label",
                                "REGION_TYPE: Region Type"))
        /\ SortedStable(last.out.state_lookup, <<"state">>,
                        PairSeq("state", "state_label", "STATE: State"))
        /\ last.op = "transform_c21_g19_sa2" =>
             SortedStable(last.out.health_condition_lookup, <<"lthc">>,
                          PairSeq("lthc", "health_condition",
                                  "LTHP: Type of long-term health condition"))

\* What does hold: the stable order for every input whose lookups have at most
\* SMALL_QUICKSORT + 1 rows, and the ascending key order for every input.
C12_SortedAndStableWhenSmall ==
    OkTransform(last) =>
        /\ Len(input.rows) <= SMALL_QUICKSORT + 1 => C12_LookupsSortedStable
        /\ SortedBy(last.out.sex_lookup, <<"sex">>)

-----------------------------------------------------------------------------
(* De-duplication and the two modes of Pipeline B, over process runs where  *)
(* `input` is the extract the run loaded.                                   *)

SameKey(r1, r2, by) == ~KeyLess(r1, r2, by) /\ ~KeyLess(r2, r1, by)

\* Any two different rows of `source` with the same key are both rows of
\* `table`, at two positions.
BothSurvive(table, source, by) ==
    \A r1, r2 \in source :
        (r1 # r2 /\ SameKey(r1, r2, by)) =>
            \E p, q \in 1..Len(table.rows) :
                p # q /\ table.rows[p] = r1 /\ table.rows[q] = r2

\* C13: lookup de-duplication is by full row, never by key alone. When the
\* extract holds one code with two labels (or one geography id with two
\* name/type/state triples) both rows are in the lookup the transform returns,
\* and when a merge brings together rows that share a key but differ
\* elsewhere, both are in the shared file afterwards.
C13_DedupByFullRow ==
    /\ (IsProcess(last) /\ last.status = "ok") =>
          /\ BothSurvive(last.out.geo_lookup, ProjectedGeo, <<"geog_id">>)
          /\ BothSurvive(last.out.sex_lookup,
                         ProjectedPairs("sex", "sex_label", "SEXP: Sex"), <<"sex">>)
          /\ BothSurvive(last.out.age_lookup,
                         ProjectedPairs("age_group", "age_group_label", AgeSource),
                         <<"age_group">>)
          /\ BothSurvive(last.out.geog_type_lookup,
                         ProjectedPairs("geog_type", "geog_type_label",
                                        "REGION_TYPE: Region Type"), <<"geog_type">>)
          /\ BothSurvive(last.out.state_lookup,
                         ProjectedPairs("state", "state_label", "STATE: State"),
                         <<"state">>)
          /\ last.op = "process_c21_g19_sa2" =>
               BothSurvive(last.out.health_condition_lookup,
                           ProjectedPairs("lthc", "health_condition",
                               "LTHP: Type of long-term health condition"),
                           <<"lthc">>)
    /\ \A m \in MergesOf(last) :
          BothSurvive(files[m.path].df,
                      RowSet(before.files[m.path].df) \cup RowSet(m.new),
                      IF m.path = "c21_g01_sa2_geo_lookup" THEN <<"geog_id">> ELSE m.by)

\* A merge that brought a code under one label into a file holding the same
\* code under another label, from an extract that itself held a code twice.
C13_Witness ==
    /\ MergeModeG19(last)
    /\ \E r1, r2 \in ProjectedPairs("lthc", "health_condition",
                                    "LTHP: Type of long-term health condition") :
          r1 # r2 /\ SameKey(r1, r2, <<"lthc">>)
    /\ \E m \in MergesOf(last) :
          \E r1 \in RowSet(before.files[m.path].df), r2 \in RowSet(m.new) :
              r2 \notin RowSet(before.files[m.path].df) /\ SameKey(r1, r2, m.by)

\* No two rows of the table carry the same code in column `col`.
OneRowPerCode(df, col) ==
    \A i, j \in 1..Len(df.rows) : i # j => df.rows[i][col] # df.rows[j][col]

\* So far Pipeline B has run in merge mode only.
OnlyMergeModeRuns ==
    /\ MergeModeG19(last)
    /\ prev.op = "none" \/ MergeModeG19(prev)

\* C14: in merge mode the shared common_health_condition_lookup file is
\* de-duplicated by code and sorted by code: after any sequence of merge-mode
\* runs of Pipeline B it holds at most one row per lthc code, in ascending
\* code order.
C14_CommonHealthOneRowPerCode ==
    OnlyMergeModeRuns =>
        /\ OneRowPerCode(files[CommonHealth].df, "lthc")
        /\ SortedBy(files[CommonHealth].df, <<"lthc">>)

\* What does hold: the file is de-duplicated by full row and sorted by code.
C14_CommonHealthDedupByRow ==
    OnlyMergeModeRuns =>
        /\ NoDuplicateRows(files[CommonHealth].df)
        /\ SortedBy(files[CommonHealth].df, <<"lthc">>)

HealthLookupFile == "c21_g19_sa2_health_condition_lookup"

\* C15: in merge mode the health-condition lookup is persisted only by union
\* into common_health_condition_lookup; the dataset-specific artifact
\* c21_g19_sa2_health_condition_lookup is left as it was by a merge-mode run.
C15_MergeModeLeavesOwnHealthLookup ==
    MergeModeG19(last) => files[HealthLookupFile] = before.files[HealthLookupFile]

\* What does hold: every persisting run of Pipeline B, in whatever mode, writes
\* its own health-condition lookup to the dataset-specific artifact.
C15_OwnHealthLookupAlwaysWritten ==
    PersistedG19(last) =>
        files[HealthLookupFile] = [exists |-> TRUE, df |-> last.out.health_condition_lookup]

\* Standalone mode: neither lookup flag set.
StandaloneG19(c) ==
    PersistedG19(c) /\ ~c.reuse_base_lookups /\ ~c.merge_health_lookup

ArtifactsG01 ==
    {"c21_g01_sa2_population"} \cup {g01_lookup_file[f] : f \in LookupFields}

\* C16: in standalone mode Pipeline B writes all six lookups, the
\* health-condition lookup included, to c21_g19_sa2_* artifacts and leaves
\* every artifact of Pipeline A (the population table and the five
\* c21_g01_sa2_*_lookup files) with exactly its prior content.
C16_StandaloneWritesOwnFilesOnly ==
    StandaloneG19(last) =>
        /\ \A f \in LookupFields :
             files[g19_lookup_file[f]] = [exists |-> TRUE, df |-> last.out[f]]
        /\ files[HealthLookupFile]
             = [exists |-> TRUE, df |-> last.out.health_condition_lookup]
        /\ \A a \in ArtifactsG01 : files[a] = before.files[a]

\* A standalone run after Pipeline A has written its artifacts, with lookup
\* rows A's files do not hold.
C16_Witness ==
    /\ StandaloneG19(last)
    /\ PersistedG01(prev)
    /\ \A a \in ArtifactsG01 : files[a].exists
    /\ \E f \in LookupFields :
         RowSet(last.out[f]) \ RowSet(files[g01_lookup_file[f]].df) # {}

\* The shared cross-dataset lookup files, and Pipeline B's own lookup files.
SharedLookupFiles == {CommonHealth} \cup {g01_lookup_file[f] : f \in LookupFields}

OwnLookupFilesG19 == {HealthLookupFile} \cup {g19_lookup_file[f] : f \in LookupFields}

\* The artifacts whose content the last run changed (each was written).
Changed == {a \in Artifacts : files[a] # before.files[a]}

\* C17: the two lookup-reconciliation policies of Pipeline B are mutually
\* exclusive: under every combination of reuse_base_lookups and
\* merge_health_lookup a persisting run writes lookups either only into shared
\* files or only into its own c21_g19_sa2_*_lookup files, never into both.
C17_PoliciesMutuallyExclusive ==
    PersistedG19(last) =>
        ~(Changed \cap SharedLookupFiles # {} /\ Changed \cap OwnLookupFilesG19 # {})

\* What does hold: the five dimension lookups go either all to the shared
\* files or all to Pipeline B's own files.
C17_DimensionLookupsOneKind ==
    PersistedG19(last) =>
        ~(/\ Changed \cap {g01_lookup_file[f] : f \in LookupFields} # {}
          /\ Changed \cap {g19_lookup_file[f] : f \in LookupFields} # {})

\* C18: Pipeline A always fully replaces its own outputs: after a successful
\* persisting run each of its six artifacts holds exactly the table this run's
\* transform produced, whatever it held before (rows Pipeline B had merged in
\* included); nothing is merged with existing content.
C18_G01FullyReplaces ==
    PersistedG01(last) =>
        /\ files["c21_g01_sa2_population"] = [exists |-> TRUE, df |-> last.out.fact]
        /\ \A f \in LookupFields :
             files[g01_lookup_file[f]] = [exists |-> TRUE, df |-> last.out[f]]

\* Pipeline A persists over lookup files that hold rows merged in by
\* Pipeline B which this run's lookups do not have.
C18_Witness ==
    /\ PersistedG01(last)
    /\ MergeModeG19(prev)
    /\ \E f \in LookupFields :
         RowSet(before.files[g01_lookup_file[f]].df) \ RowSet(last.out[f]) # {}

HealthFactFile == "c21_g19_sa2_health_conditions"

\* C19: under every flag combination a successful persisting run of
\* Pipeline B writes the fact table to its own artifact
\* c21_g19_sa2_health_conditions as a full replace equal to this run's fact
\* table, never merged with prior content, and the fact artifact of the other
\* pipeline is not changed.
C19_G19FactReplaced ==
    PersistedG19(last) =>
        /\ files[HealthFactFile] = [exists |-> TRUE, df |-> last.out.fact]
        /\ files["c21_g01_sa2_population"] = before.files["c21_g01_sa2_population"]

\* A second persisting run of Pipeline B on another extract, not in the
\* default mode.
C19_Witness ==
    /\ PersistedG19(last)
    /\ ~last.reuse_base_lookups
    /\ before.files[HealthFactFile].exists
    /\ before.files[HealthFactFile].df # last.out.fact

-----------------------------------------------------------------------------
(* Properties of split_code_and_label, over direct calls on `cell_value`.   *)

\* The text is str(value) of the cell: the text itself, or the decimal
\* numeral of an integer.
TextOf(cell) ==
    IF cell.t = "str" THEN cell.s
    ELSE IF cell.n < 0 THEN <<"-">> \o NatToStr(0 - cell.n)
    ELSE NatToStr(cell.n)

HasColon(t) == \E i \in 1..Len(t) : t[i] = ":"

\* u is t without its leading and trailing blanks.
IsTrimmed(u, t) ==
    /\ u = <<>> \/ (u[1] # " " /\ u[Len(u)] # " ")
    /\ \E a, b \in 0..Len(t) :
         /\ a + b <= Len(t)
         /\ \A k \in 1..a : t[k] = " "
         /\ \A k \in (Len(t) - b + 1)..Len(t) : t[k] = " "
         /\ u = SubSeq(t, a + 1, Len(t) - b)

\* The cell is the trimmed text t, or null when nothing is left of it.
IsTrimmedOrNull(cell, t) ==
    IF \A k \in 1..Len(t) : t[k] = " " THEN isna(cell)
    ELSE cell.t = "str" /\ IsTrimmed(cell.s, t)

\* C20: split_code_and_label splits on the first colon only. For a non-null
\* value with a colon, code is the trimmed text before the first colon and
\* label the trimmed text after it (later colons stay in the label), an empty
\* trimmed part becoming null; with no colon the whole trimmed text is the
\* code (null if empty) and the label is null; a null value gives (null, null).
C20_SplitsOnFirstColon ==
    split_result.called =>
        IF isna(cell_value) THEN isna(split_result.code) /\ isna(split_result.label)
        ELSE LET t == TextOf(cell_value) IN
             IF HasColon(t)
             THEN \E i \in 1..Len(t) :
                     /\ t[i] = ":"
                     /\ \A k \in 1..(i - 1) : t[k] # ":"
                     /\ IsTrimmedOrNull(split_result.code, SubSeq(t, 1, i - 1))
                     /\ IsTrimmedOrNull(split_result.label, SubSeq(t, i + 1, Len(t)))
             ELSE IsTrimmedOrNull(split_result.code, t) /\ isna(split_result.label)

\* A padded text with two colons: the second colon stays in the label.
C20_Witness ==
    /\ split_result.called
    /\ cell_value = Str(<<" ", "1", ":", ":">>)
    /\ split_result.code = Str(<<"1">>)
    /\ split_result.label = Str(<<":">>)

\* C21: split_code_and_label is total and pure. For every value with a string
\* form (text, number, missing value, list) the call returns a (code, label)
\* pair and never raises.
C21_SplitIsTotal ==
    split_result.called => ~split_result.raised

\* The call returns for every text, number and missing value.
C21_TotalOnScalars ==
    (split_result.called /\ cell_value.t # "list") => ~split_result.raised

\* The call touches nothing but its result.
C21_SplitIsPure ==
    [][SplitValue => UNCHANGED <<processed_dir, files, cell_value>>]_vars

\* C22: the splitter is idempotent on an already-split code. Whenever a call
\* returned a non-null code c, split_code_and_label(c) returns (c, null).
C22_IdempotentOnCode ==
    (split_result.called /\ ~split_result.raised /\ ~isna(split_result.code)) =>
        split_code_and_label(split_result.code) = [code |-> split_result.code, label |-> NA]

\* A padded value with a colon was split, and its code splits to itself.
C22_Witness ==
    /\ split_result.called
    /\ cell_value = Str(<<" ", "1", ":", "A">>)
    /\ split_result.code = Str(<<"1">>)
    /\ split_code_and_label(split_result.code) = [code |-> Str(<<"1">>), label |-> NA]

-----------------------------------------------------------------------------
(* Properties of the numeric cast.                                         *)

IsNullOrInteger(cell) == cell.t \in {"na", "int"}

IsNullOrNatural(cell) == cell.t = "na" \/ (cell.t = "int" /\ cell.n >= 0)

\* C23: after the cast every persons value of the fact table is null or an
\* integer >= 0 (a negative or non-numeric raw value has become null), and
\* every year is null or an integer.
C23_PersonsNullOrNonNegative ==
    OkTransform(last) =>
        \A i \in 1..Len(last.out.fact.rows) :
            /\ IsNullOrNatural(last.out.fact.rows[i]["persons"])
            /\ IsNullOrInteger(last.out.fact.rows[i]["year"])

\* What the cast does give: persons and year are null or an integer, the
\* integer being the raw value itself (negative ones included) and null
\* standing for a raw value that is no number.
C23_CastKeepsIntegers ==
    OkTransform(last) =>
        \A i \in 1..Len(last.out.fact.rows) :
            /\ IsNullOrInteger(last.out.fact.rows[i]["persons"])
            /\ IsNullOrInteger(last.out.fact.rows[i]["year"])
            /\ to_numeric(input.rows[i]["OBS_VALUE"]).k = "int"
                 => last.out.fact.rows[i]["persons"]
                      = Int64(to_numeric(input.rows[i]["OBS_VALUE"]).n)
            /\ to_numeric(input.rows[i]["OBS_VALUE"]).k = "nan"
                 => isna(last.out.fact.rows[i]["persons"])

-----------------------------------------------------------------------------
(* Properties of the stages of a run.                                      *)

\* C24: a run fails only at the load step (raw file not found) or at the
\* column validation (missing columns). Once the batch has passed the
\* validation, no later stage fails, whatever the cells hold.
C24_OnlyLoadAndValidationFail ==
    (IsProcess(last) /\ last.status # "ok") => FailedEarly(last)

\* The failures past the validation are the ones of the split assignment on
\* a batch without rows and of the Int64 cast on a non-integral number.
C24_LaterFailuresAreSplitOrCast ==
    (IsProcess(last) /\ last.status # "ok" /\ ~FailedEarly(last)) =>
        \/ last.status = "ValueError" /\ last.error = ColumnsSameLengthAsKey
             /\ Len(input.rows) = 0
        \/ last.status = "TypeError" /\ last.error = CannotSafelyCast
             /\ \E i \in 1..Len(input.rows) :
                    to_numeric(input.rows[i]["OBS_VALUE"]).k = "frac"

-----------------------------------------------------------------------------
(* Properties of runs on a storage that may fail.                          *)

\* The storage steps the last persisting run is made of.
StepsOf(c) ==
    IF c.op = "process_c21_g01_sa2" THEN StorageSteps_g01
    ELSE StorageSteps_g19(c.reuse_base_lookups, c.merge_health_lookup)

\* C25: no partial output is ever persisted. If a persisting run fails at any
\* step, a storage read or write failing partway through its writes and
\* merges included, no artifact of either pipeline has been modified by it.
C25_FailedRunModifiesNothing ==
    (IsProcess(last) /\ last.status # "ok") => files = before.files

\* A run that fails before its first storage step modifies nothing, and a
\* completed persisting run leaves exactly what its storage steps, run one
\* after the other, leave.
C25_WritesAreTheStepsInOrder ==
    /\ (IsProcess(last) /\ last.status \notin {"ok", "OSError"}) => files = before.files
    /\ (IsProcess(last) /\ last.status = "ok" /\ last.write_output) =>
           files = RunSteps(before.files, last.out, StepsOf(last))

-----------------------------------------------------------------------------
(* Properties of concurrent merges into one shared file.                   *)

BothWritten == \A p \in Callers : merges[p].pc = "written"

\* The calls were serialized: one of them read after the other had written.
Serialized == \E p \in Callers : merges[p].late

\* Both calls read before either wrote.
Interleaved == BothWritten /\ ~Serialized

Writer(n) == CHOOSE p \in Callers : merges[p].turn = n

\* C26: the shared-lookup merge is an unguarded read-modify-write. When the
\* two calls are serialized the final file holds the rows of both lookups (it
\* is the second merge applied to the result of the first); when both read
\* before either writes, the final file is what the last writer built from
\* the file as it was before both, without the other's contribution.
C26_UnguardedReadModifyWrite ==
    BothWritten =>
        IF Serialized
        THEN /\ \A p \in Callers : RowSet(merges[p].new_df) \subseteq RowSet(files[RacePath].df)
             /\ files[RacePath].df
                  = MergedLookup(merge_and_write_lookup(before.files,
                                     merges[Writer(1)].new_df, RacePath, RaceSortBy),
                                 merges[Writer(2)].new_df, RacePath, RaceSortBy)
        ELSE files[RacePath].df
               = MergedLookup(before.files, merges[Writer(2)].new_df, RacePath, RaceSortBy)

\* Both calls read before either wrote, and a row of the first writer's lookup
\* is missing from the final file.
C26_Witness ==
    /\ Interleaved
    /\ \E r \in RowSet(merges[Writer(1)].new_df) : r \notin RowSet(files[RacePath].df)

-----------------------------------------------------------------------------
(* Properties of runs without persistence.                                 *)

\* A successful run of either process function with write_output false.
DryRun(c) == IsProcess(c) /\ c.status = "ok" /\ ~c.write_output

\* C27: storage side effects occur only in persist mode. A successful run
\* with write_output false writes no artifact, modifies no shared lookup file
\* and does not create the processed-output location.
C27_NoSideEffectsWithoutPersist ==
    DryRun(last) => (files = before.files /\ processed_dir = before.dir)

\* Such a run leaves every artifact as it was; the directory it does create.
C27_NoArtifactWithoutPersist ==
    DryRun(last) => (files = before.files /\ processed_dir)

-----------------------------------------------------------------------------
(* Properties of the shared lookup files over several runs.                *)

\* C28: under merging the shared lookup files are an append-only union store.
\* A merge-mode run of Pipeline B removes no row from the common
\* health-condition lookup or from any of the five c21_g01_sa2_*_lookup
\* files: every file that was there is still there with every row it had, and
\* after two merge-mode runs the rows the first one contributed are still there.
C28_SharedFilesNeverShrink ==
    /\ MergeModeG19(last) =>
          \A a \in SharedLookupFiles :
              /\ files[a].exists
              /\ before.files[a].exists =>
                    RowSet(before.files[a].df) \subseteq RowSet(files[a].df)
    /\ (MergeModeG19(prev) /\ MergeModeG19(last)) =>
          \A f \in DOMAIN merge_target :
              RowSet(prev.out[f]) \subseteq RowSet(files[merge_target[f]].df)

\* A merge-mode run found a shared file with a row its own lookup lacks, added
\* rows to that file, and the old row is still there.
C28_Witness ==
    /\ MergeModeG19(last)
    /\ \E a \in SharedLookupFiles :
         /\ before.files[a].exists
         /\ RowSet(before.files[a].df) # RowSet(files[a].df)
         /\ \E f \in DOMAIN merge_target :
              /\ merge_target[f] = a
              /\ RowSet(before.files[a].df) \ RowSet(last.out[f]) # {}
              /\ RowSet(before.files[a].df) \subseteq RowSet(files[a].df)

-----------------------------------------------------------------------------
(* Referential integrity of what a run leaves.                             *)

\* The code column of each lookup.
code_col ==
    [geo_lookup |-> "geog_id", sex_lookup |-> "sex", age_lookup |-> "age_group",
     geog_type_lookup |-> "geog_type", state_lookup |-> "state",
     health_condition_lookup |-> "lthc"]

\* The fact artifact the last persisting run wrote.
FactFileOf(c) ==
    IF c.op = "process_c21_g01_sa2" THEN "c21_g01_sa2_population" ELSE HealthFactFile

\* The lookup artifacts the last persisting run wrote or merged into, each
\* with the lookup it holds.
LookupFilesOf(c) ==
    IF c.op = "process_c21_g01_sa2"
    THEN {[field |-> f, file |-> g01_lookup_file[f]] : f \in LookupFields}
    ELSE {[field |-> f,
           file |-> IF c.reuse_base_lookups THEN merge_target[f] ELSE g19_lookup_file[f]] :
             f \in LookupFields}
         \cup {[field |-> "health_condition_lookup", file |-> HealthLookupFile]}
         \cup (IF c.merge_health_lookup
               THEN {[field |-> "health_condition_lookup", file |-> CommonHealth]}
               ELSE {})

\* Every value of the column col of the fact table occurs in that column of the lookup.
CodesCovered(fact, lookup, col) ==
    \A i \in 1..Len(fact.rows) :
        \E k \in 1..Len(lookup.rows) : lookup.rows[k][col] = fact.rows[i][col]

\* C29: referential integrity at the end of a run. After a successful
\* persisting run, every dimension code of the fact artifact it wrote occurs
\* as a key in the lookup artifact it wrote or merged into for that dimension.
C29_FactCodesInLookups ==
    (PersistedG01(last) \/ PersistedG19(last)) =>
        \A l \in LookupFilesOf(last) :
            /\ files[FactFileOf(last)].exists /\ files[l.file].exists
            /\ CodesCovered(files[FactFileOf(last)].df, files[l.file].df,
                            code_col[l.field])

\* A merge-mode run whose fact rows carry a code the shared file did not hold
\* before the run, and a row without a sex code.
C29_Witness ==
    /\ MergeModeG19(last)
    /\ before.files[merge_target["sex_lookup"]].exists
    /\ ~CodesCovered(files[HealthFactFile].df,
                     before.files[merge_target["sex_lookup"]].df, "sex")
    /\ \E i \in 1..Len(files[HealthFactFile].df.rows) :
          isna(files[HealthFactFile].df.rows[i]["sex"])

-----------------------------------------------------------------------------
(* Properties of the order of merges.                                      *)

\* The shared file after new_1 and then new_2 were merged into storage fs.
MergedInOrder(fs, new_1, new_2) ==
    MergedLookup(merge_and_write_lookup(fs, new_1, RacePath, RaceSortBy),
                 new_2, RacePath, RaceSortBy)

\* C30: merge order does not matter. Merging L1 then L2 into a file leaves the
\* same table, same rows in the same order, as merging L2 then L1, also when
\* two rows share a key and differ in label.
C30_MergeOrderIrrelevant ==
    (BothWritten /\ Serialized) =>
        files[RacePath].df
          = MergedInOrder(before.files, merges[Writer(2)].new_df, merges[Writer(1)].new_df)

\* Either order leaves the same set of rows.
C30_SameRowsEitherOrder ==
    (BothWritten /\ Serialized) =>
        RowSet(files[RacePath].df)
          = RowSet(MergedInOrder(before.files, merges[Writer(2)].new_df,
                                 merges[Writer(1)].new_df))

====
